---- MODULE Spec2Model ----
(***************************************************************************)
(* Model of trading::OrderBook (src/src/order_book.cpp, lines 1-345, the   *)
(* flat-storage variant declared in include/trading/order_book.hpp).       *)
(*                                                                         *)
(* The pool orders_ is a sequence; a slot index idx of the C++ code        *)
(* (0-based) is the position idx+1 of the sequence.  A book (std::map      *)
(* Price -> Level) is a function whose domain is the set of prices that    *)
(* have a level; its value is the level's vector of slot indices.          *)
(*                                                                         *)
(* Further down: utils::SpscQueue (include/utils/spsc_queue.hpp) step by   *)
(* step over its loads and stores, and the producer and consumer threads   *)
(* of src/app/mt_bench_main.cpp that feed the book through it.             *)
(***************************************************************************)
EXTENDS Integers, Sequences, FiniteSets, TLC

\* ---------------------------------------------------------------- bounds
MaxPrice  == 2      \* prices are 1..MaxPrice
MaxQty    == 2      \* positive quantities are 1..MaxQty
MaxId     == 1      \* caller-chosen ids (add_limit_order_with_id, cancel)
MaxOrders == 3      \* orders that may come to rest since construction/clear

Buy  == "Buy"
Sell == "Sell"
Sides     == {Buy, Sell}
Prices    == 1..MaxPrice
QtyInputs == (-1)..MaxQty
IdInputs  == 1..MaxId

VARIABLES
    bids,          \* BidBook  bids_ : price -> level indices
    asks,          \* AskBook  asks_ : price -> level indices
    orders,        \* std::vector<Order> orders_
    free_indices,  \* std::vector<OrderIndex> free_indices_
    id_to_index,   \* std::unordered_map<OrderId, OrderIndex>
    next_id,       \* OrderId next_id_
    last,          \* the last call: which operation, and what it returned
    clock,         \* arrival stamps handed out so far (history)
    issued,        \* ids add_limit_order returned since construction/clear
    capacity,      \* SpscQueue::capacity_
    buffer,        \* SpscQueue::buffer_
    head,          \* SpscQueue::head_
    tail,          \* SpscQueue::tail_
    producer,      \* the producer thread: where it is, and its locals
    consumer,      \* the consumer thread: where it is, and its locals
    generator,     \* EventGenerator generator (mt_bench)
    producer_done, \* std::atomic<bool> producer_done
    consumed_count,\* std::atomic<std::size_t> consumed_count
    pushed,        \* values the pushes that returned true took (history)
    popped,        \* values the pops that returned true gave (history)
    sent           \* events generator.next() has produced, End left out (history)

bookVars == <<bids, asks, orders, free_indices, id_to_index, next_id,
              last, clock, issued>>

queueVars == <<capacity, buffer, head, tail, producer, consumer, pushed, popped>>

pipeVars == <<generator, producer_done, consumed_count, sent>>

vars == <<bookVars, queueVars, pipeVars>>

\* ------------------------------------------------------------- helpers
\* min that always answers with its first argument
MinTakesFirst(a, b) == a

Min(a, b) == IF a < b THEN a ELSE b

SetMax(S) == CHOOSE x \in S : \A y \in S : y <= x
SetMin(S) == CHOOSE x \in S : \A y \in S : x <= y

RECURSIVE SumSeq(_, _)
SumSeq(s, f) == IF s = <<>> THEN 0 ELSE s[1][f] + SumSeq(Tail(s), f)

\* std::remove + erase: drop every occurrence of x, keep the order of the rest
RECURSIVE RemoveAll(_, _)
RemoveAll(s, x) ==
    IF s = <<>> THEN <<>>
    ELSE IF s[1] = x THEN RemoveAll(Tail(s), x)
         ELSE <<s[1]>> \o RemoveAll(Tail(s), x)

\* std::map::erase(key) / unordered_map::erase(key)
MapErase(m, k) == [x \in DOMAIN m \ {k} |-> m[x]]
\* m[k] = v  (insert or assign)
MapPut(m, k, v) == [x \in DOMAIN m \cup {k} |-> IF x = k THEN v ELSE m[x]]

EmptyMap == [x \in {} |-> 0]

\* Order{} : the default-constructed pool slot
DefaultOrder ==
    [id |-> 0, side |-> Buy, price |-> 0, qty |-> 0, active |-> FALSE, ts |-> 0]

\* What a call hands back.  ret is the returned OrderId (add_limit_order,
\* add_limit_order_with_id) or the returned bool as 1/0 (cancel); requested,
\* filled, remaining and trades are the MatchResult of execute_market_order.
\* For the two add calls requested/filled/remaining report the taker pass:
\* the quantity asked for, the part matched at once, the residual that rests.
NoCall ==
    [op |-> "none", ret |-> 0, requested |-> 0, filled |-> 0, remaining |-> 0,
     trades |-> <<>>]

\* -------------------------------------------------------------- Init
\* a thread that is not running
NoThread == [pc |-> "none"]

\* OrderBook::OrderBook(): an empty book, next_id_ = 1
BookInit ==
    /\ bids = EmptyMap
    /\ asks = EmptyMap
    /\ orders = <<>>
    /\ free_indices = <<>>
    /\ id_to_index = EmptyMap
    /\ next_id = 1
    /\ last = NoCall
    /\ clock = 0
    /\ issued = {}

\* an OrderBook on its own: no queue, no threads
Init ==
    /\ BookInit
    /\ capacity = 0
    /\ buffer = <<>>
    /\ head = 0
    /\ tail = 0
    /\ producer = NoThread
    /\ consumer = NoThread
    /\ generator = [num_events |-> 0, generated |-> 0, next_id |-> 1,
                    active_ids |-> <<>>]
    /\ producer_done = FALSE
    /\ consumed_count = 0
    /\ pushed = <<>>
    /\ popped = <<>>
    /\ sent = <<>>

\* bool OrderBook::empty()
empty == DOMAIN bids = {} /\ DOMAIN asks = {}

\* begin() of a book: highest price of the bid book, lowest of the ask book
\* begin() of a book ordered the other way round
BookBeginReversed(book, bookSide) ==
    IF bookSide = Buy THEN SetMin(DOMAIN book) ELSE SetMax(DOMAIN book)

BookBegin(book, bookSide) ==
    IF bookSide = Buy THEN SetMax(DOMAIN book) ELSE SetMin(DOMAIN book)

\* the aggregation loop of best_bid / best_ask over one level
RECURSIVE AggQty(_, _)
AggQty(indices, ords) ==
    IF indices = <<>> THEN 0
    ELSE LET ord == ords[indices[1]]
         IN (IF ord.active /\ ord.qty > 0 THEN ord.qty ELSE 0)
            + AggQty(Tail(indices), ords)

InvalidInfo == [valid |-> FALSE, price |-> 0, qty |-> 0]

LevelInfoOf(book, bookSide, ords) ==
    IF DOMAIN book = {} THEN InvalidInfo
    ELSE LET price == BookBegin(book, bookSide)
             agg   == AggQty(book[price], ords)
         IN IF agg = 0 THEN InvalidInfo
            ELSE [valid |-> TRUE, price |-> price, qty |-> agg]

best_bid == LevelInfoOf(bids, Buy, orders)
best_ask == LevelInfoOf(asks, Sell, orders)

\* OrderBook::allocate_slot, on the pair (orders_, free_indices_)
allocate_slot(ords, free) ==
    IF free # <<>>
    THEN [idx |-> free[Len(free)], orders |-> ords,
          free |-> SubSeq(free, 1, Len(free) - 1)]
    ELSE [idx |-> Len(ords) + 1, orders |-> Append(ords, DefaultOrder),
          free |-> free]

\* ------------------------------------------------------------ matching
\* The state the matching routine works on: both books, the pool, the free
\* list, the id index, the taker quantity still to fill, and (history) the
\* fills it has made so far.
BookState(q) ==
    [bids |-> bids, asks |-> asks, orders |-> orders, free |-> free_indices,
     index |-> id_to_index, qty |-> q, fills |-> <<>>]

BookOf(st, bookSide) == IF bookSide = Buy THEN st.bids ELSE st.asks

WithBook(st, bookSide, book) ==
    IF bookSide = Buy THEN [st EXCEPT !.bids = book]
                      ELSE [st EXCEPT !.asks = book]

\* The three lambdas handed to match_on_book, as data.
AlwaysCross       == [kind |-> "always", price |-> 0]
BuyLimitCross(p)  == [kind |-> "buy_limit", price |-> p]
SellLimitCross(p) == [kind |-> "sell_limit", price |-> p]

should_cross_strict(pred, top_price) ==
    CASE pred.kind = "always"     -> TRUE
      [] pred.kind = "buy_limit"  -> top_price < pred.price
      [] pred.kind = "sell_limit" -> top_price > pred.price

should_cross(pred, top_price) ==
    CASE pred.kind = "always"     -> TRUE
      [] pred.kind = "buy_limit"  -> top_price <= pred.price
      [] pred.kind = "sell_limit" -> top_price >= pred.price

\* The inner for loop of match_on_book over one level:
\*   for (i = 0; i < level_indices.size() && qty > 0; ++i)
\* lv is level_indices (written in place), i the 1-based loop position,
\* wp is write_pos.  Returns the state, the vector and write_pos at loop exit.
RECURSIVE LevelLoop(_, _, _, _, _)
LevelLoop(st, lv, i, wp, level_price) ==
    IF ~(i <= Len(lv) /\ st.qty > 0)
    THEN [st |-> st, lv |-> lv, wp |-> wp]
    ELSE LET idx == lv[i]
             ord == st.orders[idx]
         IN IF ~ord.active \/ ord.qty <= 0
            THEN LevelLoop(st, lv, i + 1, wp, level_price)
            ELSE LET traded == Min(st.qty, ord.qty)
                     fill   == [slot |-> idx, ts |-> ord.ts, maker_id |-> ord.id,
                                price |-> level_price, qty |-> traded]
                     st1    == [st EXCEPT !.qty = @ - traded,
                                          !.orders[idx].qty = @ - traded,
                                          !.fills = Append(@, fill)]
                 IN IF st1.orders[idx].qty = 0
                    THEN LevelLoop([st1 EXCEPT !.orders[idx].active = FALSE,
                                               !.free = Append(@, idx),
                                               !.index = MapErase(@, ord.id)],
                                   lv, i + 1, wp, level_price)
                    ELSE LevelLoop(st1, [lv EXCEPT ![wp + 1] = idx],
                                   i + 1, wp + 1, level_price)

\* The while loop of match_on_book:  while (qty > 0 && !book.empty())
RECURSIVE BookLoop(_, _, _)
BookLoop(st, bookSide, pred) ==
    IF ~(st.qty > 0 /\ DOMAIN BookOf(st, bookSide) # {})
    THEN st
    ELSE LET book        == BookOf(st, bookSide)
             level_price == BookBegin(book, bookSide)
         IN IF ~should_cross(pred, level_price)
            THEN st
            ELSE LET r       == LevelLoop(st, book[level_price], 1, 0, level_price)
                     resized == SubSeq(r.lv, 1, r.wp)   \* resize(write_pos)
                     book1   == IF resized = <<>>
                                THEN MapErase(book, level_price)
                                ELSE MapPut(book, level_price, resized)
                 IN BookLoop(WithBook(r.st, bookSide, book1), bookSide, pred)

\* Quantity OrderBook::match_on_book(book, qty, should_cross); the returned
\* quantity is the qty field of the result.
match_on_book(st, bookSide, pred) ==
    IF st.qty <= 0 THEN [st EXCEPT !.qty = 0]
    ELSE BookLoop(st, bookSide, pred)

\* Quantity OrderBook::match_incoming_limit(side, price, qty)
match_incoming_limit(st, side, price) ==
    IF st.qty <= 0 THEN [st EXCEPT !.qty = 0]
    ELSE IF side = Buy
         THEN match_on_book(st, Sell, BuyLimitCross(price))
         ELSE match_on_book(st, Buy, SellLimitCross(price))

\* resting an order without the id_to_index_[id] = idx line
RestOrderUnregistered(st, id, side, price, stamp) ==
    LET a    == allocate_slot(st.orders, st.free)
        ord  == [id |-> id, side |-> side, price |-> price, qty |-> st.qty,
                 active |-> TRUE, ts |-> stamp]
        book == BookOf(st, side)
        lvl  == IF price \in DOMAIN book THEN book[price] ELSE <<>>
        st1  == [st EXCEPT !.orders = [a.orders EXCEPT ![a.idx] = ord],
                           !.free   = a.free]
    IN WithBook(st1, side, MapPut(book, price, Append(lvl, a.idx)))

\* the tail of add_limit_order / add_limit_order_with_id: write the order
\* into a freshly allocated slot, register the id, push the slot index at
\* the tail of the level (bids_[price] / asks_[price] creates the level)
RestOrder(st, id, side, price, stamp) ==
    LET a    == allocate_slot(st.orders, st.free)
        ord  == [id |-> id, side |-> side, price |-> price, qty |-> st.qty,
                 active |-> TRUE, ts |-> stamp]
        book == BookOf(st, side)
        lvl  == IF price \in DOMAIN book THEN book[price] ELSE <<>>
        st1  == [st EXCEPT !.orders = [a.orders EXCEPT ![a.idx] = ord],
                           !.free   = a.free,
                           !.index  = MapPut(@, id, a.idx)]
    IN WithBook(st1, side, MapPut(book, price, Append(lvl, a.idx)))

\* the "id already exists" branch of add_limit_order_with_id
Supersede(st, id) ==
    IF id \in DOMAIN st.index
    THEN LET old == st.index[id]
         IN [st EXCEPT !.orders[old].active = FALSE,
                       !.orders[old].qty = 0,
                       !.free = Append(@, old),
                       !.index = MapErase(@, id)]
    ELSE st

Install(st) ==
    /\ bids' = st.bids
    /\ asks' = st.asks
    /\ orders' = st.orders
    /\ free_indices' = st.free
    /\ id_to_index' = st.index

\* ------------------------------------------------------------- actions
Returned(op, ret, requested, filled, remaining) ==
    [op |-> op, ret |-> ret, requested |-> requested, filled |-> filled,
     remaining |-> remaining, trades |-> <<>>]

\* next_id_++ : the value next_id_ holds after handing out id
PostIncrementStuck(id) == id
PostIncrement(id) == id + 1

\* The body of add_limit_order on a book record st whose qty field is the
\* quantity asked for; id is the value of next_id_, stamp the arrival stamp
\* the order gets if it rests.  ret is the returned OrderId.
add_limit_order_on(st, id, side, price, stamp) ==
    IF st.qty <= 0
    THEN [st |-> st, ret |-> 0, rested |-> FALSE, remaining |-> 0]
    ELSE LET m == match_incoming_limit(st, side, price)
         IN IF m.qty <= 0
            THEN [st |-> m, ret |-> 0, rested |-> FALSE, remaining |-> m.qty]
            ELSE [st |-> RestOrder(m, id, side, price, stamp), ret |-> id,
                  rested |-> TRUE, remaining |-> m.qty]

\* OrderId OrderBook::add_limit_order(Side side, Price price, Quantity qty)
add_limit_order(side, price, qty) ==
    \* the call is made once and its result bound to r
    \E r \in {add_limit_order_on(BookState(qty), next_id, side, price,
                                  clock + 1)} :
       /\ r.rested => clock < MaxOrders
       /\ Install([r.st EXCEPT !.qty = 0])
       /\ next_id' = IF r.rested THEN PostIncrement(next_id) ELSE next_id
       /\ clock' = IF r.rested THEN clock + 1 ELSE clock
       /\ issued' = IF r.rested THEN issued \cup {r.ret} ELSE issued
       /\ last' = Returned("add_limit_order", r.ret, qty,
                           IF qty <= 0 THEN 0 ELSE qty - r.remaining,
                           r.remaining)

\* The body of add_limit_order_with_id on a book record st whose qty field
\* is the quantity asked for.
add_limit_order_with_id_on(st, id, side, price, stamp) ==
    IF st.qty <= 0
    THEN [st |-> st, ret |-> id, rested |-> FALSE, remaining |-> 0]
    ELSE LET m == match_incoming_limit(st, side, price)
         IN IF m.qty <= 0
            THEN [st |-> m, ret |-> id, rested |-> FALSE, remaining |-> m.qty]
            ELSE [st |-> RestOrder(Supersede(m, id), id, side, price, stamp),
                  ret |-> id, rested |-> TRUE, remaining |-> m.qty]

\* OrderId OrderBook::add_limit_order_with_id(id, side, price, qty)
add_limit_order_with_id(id, side, price, qty) ==
    \* the call is made once and its result bound to r
    \E r \in {add_limit_order_with_id_on(BookState(qty), id, side, price,
                                        clock + 1)} :
       /\ r.rested => clock < MaxOrders
       /\ Install([r.st EXCEPT !.qty = 0])
       /\ clock' = IF r.rested THEN clock + 1 ELSE clock
       /\ last' = Returned("add_limit_order_with_id", r.ret, qty,
                           IF qty <= 0 THEN 0 ELSE qty - r.remaining,
                           r.remaining)
       /\ UNCHANGED <<next_id, issued>>

\* cancel that drops the whole level of the cancelled order
cancel_on_erase_level(st, id) ==
    IF id \notin DOMAIN st.index
    THEN [st |-> st, ret |-> FALSE]
    ELSE LET idx == st.index[id]
             ord == st.orders[idx]
         IN IF ~ord.active \/ ord.qty <= 0
            THEN [st |-> [st EXCEPT !.index = MapErase(@, id)], ret |-> FALSE]
            ELSE LET st1 == [st EXCEPT !.orders[idx].active = FALSE,
                                       !.orders[idx].qty = 0,
                                       !.free = Append(@, idx),
                                       !.index = MapErase(@, id)]
                 IN [st |-> WithBook(st1, ord.side,
                                     MapErase(BookOf(st, ord.side), ord.price)),
                     ret |-> TRUE]

\* cancel that looks the id up with id_to_index_[id] instead of find(): an
\* unknown id is inserted with the value-initialised index 0 (slot 1 here)
cancel_on_subscript(st, id) ==
    IF id \notin DOMAIN st.index /\ st.orders = <<>>
    THEN [st |-> st, ret |-> FALSE]
    ELSE LET idx == IF id \in DOMAIN st.index THEN st.index[id] ELSE 1
             ord == st.orders[idx]
         IN IF ~ord.active \/ ord.qty <= 0
            THEN [st |-> [st EXCEPT !.index = MapErase(@, id)], ret |-> FALSE]
            ELSE LET book  == BookOf(st, ord.side)
                     book1 == IF ord.price \in DOMAIN book
                              THEN LET v == RemoveAll(book[ord.price], idx)
                                   IN IF v = <<>>
                                      THEN MapErase(book, ord.price)
                                      ELSE MapPut(book, ord.price, v)
                              ELSE book
                     st1   == [st EXCEPT !.orders[idx].active = FALSE,
                                         !.orders[idx].qty = 0,
                                         !.free = Append(@, idx),
                                         !.index = MapErase(@, id)]
                 IN [st |-> WithBook(st1, ord.side, book1), ret |-> TRUE]

\* cancel without the two lines ord.active = false; ord.qty = 0
cancel_on_no_tombstone(st, id) ==
    IF id \notin DOMAIN st.index
    THEN [st |-> st, ret |-> FALSE]
    ELSE LET idx == st.index[id]
             ord == st.orders[idx]
         IN IF ~ord.active \/ ord.qty <= 0
            THEN [st |-> [st EXCEPT !.index = MapErase(@, id)], ret |-> FALSE]
            ELSE LET book  == BookOf(st, ord.side)
                     book1 == IF ord.price \in DOMAIN book
                              THEN LET v == RemoveAll(book[ord.price], idx)
                                   IN IF v = <<>>
                                      THEN MapErase(book, ord.price)
                                      ELSE MapPut(book, ord.price, v)
                              ELSE book
                     st1   == [st EXCEPT !.free = Append(@, idx),
                                         !.index = MapErase(@, id)]
                 IN [st |-> WithBook(st1, ord.side, book1), ret |-> TRUE]

\* cancel that erases the head of the level instead of the cancelled index
cancel_on_pop_front(st, id) ==
    IF id \notin DOMAIN st.index
    THEN [st |-> st, ret |-> FALSE]
    ELSE LET idx == st.index[id]
             ord == st.orders[idx]
         IN IF ~ord.active \/ ord.qty <= 0
            THEN [st |-> [st EXCEPT !.index = MapErase(@, id)], ret |-> FALSE]
            ELSE LET book  == BookOf(st, ord.side)
                     book1 == IF ord.price \in DOMAIN book
                              THEN LET v == Tail(book[ord.price])
                                   IN IF v = <<>>
                                      THEN MapErase(book, ord.price)
                                      ELSE MapPut(book, ord.price, v)
                              ELSE book
                     st1   == [st EXCEPT !.orders[idx].active = FALSE,
                                         !.orders[idx].qty = 0,
                                         !.free = Append(@, idx),
                                         !.index = MapErase(@, id)]
                 IN [st |-> WithBook(st1, ord.side, book1), ret |-> TRUE]

\* cancel without the final id_to_index_.erase(it)
cancel_on_keeps_id(st, id) ==
    IF id \notin DOMAIN st.index
    THEN [st |-> st, ret |-> FALSE]
    ELSE LET idx == st.index[id]
             ord == st.orders[idx]
         IN IF ~ord.active \/ ord.qty <= 0
            THEN [st |-> [st EXCEPT !.index = MapErase(@, id)], ret |-> FALSE]
            ELSE LET book  == BookOf(st, ord.side)
                     book1 == IF ord.price \in DOMAIN book
                              THEN LET v == RemoveAll(book[ord.price], idx)
                                   IN IF v = <<>>
                                      THEN MapErase(book, ord.price)
                                      ELSE MapPut(book, ord.price, v)
                              ELSE book
                     st1   == [st EXCEPT !.orders[idx].active = FALSE,
                                         !.orders[idx].qty = 0,
                                         !.free = Append(@, idx)]
                 IN [st |-> WithBook(st1, ord.side, book1), ret |-> TRUE]

\* The body of cancel on a book record; ret is the returned bool.
cancel_on(st, id) ==
    IF id \notin DOMAIN st.index
    THEN [st |-> st, ret |-> FALSE]
    ELSE LET idx == st.index[id]
             ord == st.orders[idx]
         IN IF ~ord.active \/ ord.qty <= 0
            THEN [st |-> [st EXCEPT !.index = MapErase(@, id)], ret |-> FALSE]
            ELSE LET book  == BookOf(st, ord.side)
                     book1 == IF ord.price \in DOMAIN book
                              THEN LET v == RemoveAll(book[ord.price], idx)
                                   IN IF v = <<>>
                                      THEN MapErase(book, ord.price)
                                      ELSE MapPut(book, ord.price, v)
                              ELSE book
                     st1   == [st EXCEPT !.orders[idx].active = FALSE,
                                         !.orders[idx].qty = 0,
                                         !.free = Append(@, idx),
                                         !.index = MapErase(@, id)]
                 IN [st |-> WithBook(st1, ord.side, book1), ret |-> TRUE]

\* bool OrderBook::cancel(OrderId id); ret is 1 for true, 0 for false
cancel(id) ==
    \E r \in {cancel_on(BookState(0), id)} :
       /\ Install(r.st)
       /\ last' = Returned("cancel", IF r.ret THEN 1 ELSE 0, 0, 0, 0)
       /\ UNCHANGED <<next_id, clock, issued>>

\* res.filled = qty - remaining; res.remaining = remaining
MarketResultNoSubtract(qty, remaining) ==
    [requested |-> qty, filled |-> qty, remaining |-> remaining]

MarketResult(qty, remaining) ==
    [requested |-> qty, filled |-> qty - remaining, remaining |-> remaining]

\* the match_on_book call of execute_market_order: a Buy hits asks_, a Sell bids_
market_match(side, qty) ==
    IF side = Buy
    THEN match_on_book(BookState(qty), Sell, AlwaysCross)
    ELSE match_on_book(BookState(qty), Buy, AlwaysCross)

\* execute_market_order whose early return tests qty == 0
execute_market_order_zero_guard(side, qty) ==
    IF qty = 0
    THEN /\ last' = Returned("execute_market_order", 0, qty, 0, qty)
         /\ UNCHANGED <<bids, asks, orders, free_indices, id_to_index,
                        next_id, clock, issued>>
    ELSE LET m   == market_match(side, qty)
             res == MarketResult(qty, m.qty)
         IN /\ Install(m)
            /\ last' = Returned("execute_market_order", 0, res.requested,
                                res.filled, res.remaining)
            /\ UNCHANGED <<next_id, clock, issued>>

\* MatchResult OrderBook::execute_market_order(Side side, Quantity qty)
\* res.trades is default-constructed and never written.
execute_market_order(side, qty) ==
    IF qty <= 0
    THEN /\ last' = Returned("execute_market_order", 0, qty, 0, qty)
         /\ UNCHANGED <<bids, asks, orders, free_indices, id_to_index,
                        next_id, clock, issued>>
    ELSE \E m \in {market_match(side, qty)} :
          LET res == MarketResult(qty, m.qty)
          IN /\ Install(m)
            /\ last' = Returned("execute_market_order", 0, res.requested,
                                res.filled, res.remaining)
            /\ UNCHANGED <<next_id, clock, issued>>

\* clear without the line next_id_ = 1
clear_keep_next_id ==
    /\ bids' = EmptyMap
    /\ asks' = EmptyMap
    /\ orders' = <<>>
    /\ free_indices' = <<>>
    /\ id_to_index' = EmptyMap
    /\ next_id' = next_id
    /\ last' = Returned("clear", 0, 0, 0, 0)
    /\ clock' = 0
    /\ issued' = {}

\* void OrderBook::clear()
clear ==
    /\ bids' = EmptyMap
    /\ asks' = EmptyMap
    /\ orders' = <<>>
    /\ free_indices' = <<>>
    /\ id_to_index' = EmptyMap
    /\ next_id' = 1
    /\ last' = Returned("clear", 0, 0, 0, 0)
    /\ clock' = 0
    /\ issued' = {}

CancelIds == IdInputs \cup (1..MaxOrders)

AddLimitOrder ==
    /\ \E side \in Sides, price \in Prices, qty \in QtyInputs :
          add_limit_order(side, price, qty)
    /\ UNCHANGED <<queueVars, pipeVars>>

AddLimitOrderWithId ==
    /\ \E id \in IdInputs, side \in Sides, price \in Prices, qty \in QtyInputs :
          add_limit_order_with_id(id, side, price, qty)
    /\ UNCHANGED <<queueVars, pipeVars>>

Cancel ==
    /\ \E id \in CancelIds : cancel(id)
    /\ UNCHANGED <<queueVars, pipeVars>>

ExecuteMarketOrder ==
    /\ \E side \in Sides, qty \in QtyInputs : execute_market_order(side, qty)
    /\ UNCHANGED <<queueVars, pipeVars>>

Clear == clear /\ UNCHANGED <<queueVars, pipeVars>>

Next ==
    \/ AddLimitOrder
    \/ AddLimitOrderWithId
    \/ Cancel
    \/ ExecuteMarketOrder
    \/ Clear

Spec == Init /\ [][Next]_vars

\* The calls of the id-generating interface alone: no caller-chosen ids.
NextPlain ==
    \/ AddLimitOrder
    \/ Cancel
    \/ ExecuteMarketOrder
    \/ Clear

SpecPlain == Init /\ [][NextPlain]_vars

\* ------------------------------------------------------------------
\* Resting orders, read off the pool: an order rests from the call that wrote
\* it into a slot until it is cancelled, superseded or fully filled, and all
\* three leave the slot with active = false and qty = 0.
Opposite(side) == IF side = Buy THEN Sell ELSE Buy

RestingSlots(ords) == {i \in DOMAIN ords : ords[i].active /\ ords[i].qty > 0}

RestingOn(ords, side) == {i \in RestingSlots(ords) : ords[i].side = side}

RECURSIVE TotalQty(_, _)
TotalQty(ords, S) ==
    IF S = {} THEN 0
    ELSE LET i == CHOOSE x \in S : TRUE
         IN ords[i].qty + TotalQty(ords, S \ {i})

\* D of a market order: everything resting on the side
Depth(ords, side) == TotalQty(ords, RestingOn(ords, side))

\* a price on bookSide that an incoming limit at price p reaches
Crosses(takerSide, p, makerPrice) ==
    IF takerSide = Buy THEN makerPrice <= p ELSE makerPrice >= p

\* X of a limit order: everything resting opposite at crossing prices
CrossingSlots(ords, takerSide, p) ==
    {i \in RestingOn(ords, Opposite(takerSide)) : Crosses(takerSide, p, ords[i].price)}

\* better(side, p1, p2): p1 is a strictly better maker price than p2
Better(makerSide, p1, p2) == IF makerSide = Buy THEN p1 > p2 ELSE p1 < p2

FilledSlots(fills) == {fills[k].slot : k \in DOMAIN fills}

RECURSIVE FilledQty(_, _)
FilledQty(fills, slot) ==
    IF fills = <<>> THEN 0
    ELSE (IF fills[1].slot = slot THEN fills[1].qty ELSE 0)
         + FilledQty(Tail(fills), slot)

SeqRange(s) == {s[k] : k \in DOMAIN s}

Restrict(s, S) == LET In(x) == x \in S IN SelectSeq(s, In)

PosQtys == 1..MaxQty

\* all matches a caller can start in the current state, each with the side
\* of the book it hits
MatchesFromHere ==
    {[m |-> market_match(side, q), hit |-> Opposite(side)] :
        side \in Sides, q \in PosQtys}
    \cup
    {[m |-> match_incoming_limit(BookState(q), side, p), hit |-> Opposite(side)] :
        side \in Sides, p \in Prices, q \in PosQtys}

\* ------------------------------------------------------------------ C1
\* C1: a market order of quantity q > 0 returns filled = min(q, D) and
\* remaining = q - filled, D being the total quantity resting on the
\* opposite side before the call.
C1_MarketFillsDepth ==
    [][\A side \in Sides, q \in PosQtys :
          (/\ last'.op = "execute_market_order"
           /\ last'.requested = q
           /\ execute_market_order(side, q)) =>
              /\ last'.filled = Min(q, Depth(orders, Opposite(side)))
              /\ last'.remaining = q - last'.filled]_vars

\* ------------------------------------------------------------------ C2
\* the orders of the level at price p that a match leaves without a fill
Untouched(m, hit, p) ==
    Restrict(BookOf(BookState(0), hit)[p],
             RestingSlots(orders) \ FilledSlots(m.fills))

\* C2: a match changes only the makers it trades against: the resting orders
\* of a level that got no fill stay in the level, with their quantity and in
\* their FIFO order, and an order that was filled only in part stays too.
C2_MatchFrame ==
    \A c \in MatchesFromHere :
        /\ \A p \in DOMAIN BookOf(BookState(0), c.hit) :
              LET u == Untouched(c.m, c.hit, p)
              IN u # <<>> =>
                   /\ p \in DOMAIN BookOf(c.m, c.hit)
                   /\ Restrict(BookOf(c.m, c.hit)[p], SeqRange(u)) = u
                   /\ \A k \in DOMAIN u : c.m.orders[u[k]] = orders[u[k]]
        /\ \A k \in DOMAIN c.m.fills :
              LET f == c.m.fills[k]
              IN c.m.orders[f.slot].qty > 0 =>
                   /\ f.price \in DOMAIN BookOf(c.m, c.hit)
                   /\ f.slot \in SeqRange(BookOf(c.m, c.hit)[f.price])

\* ------------------------------------------------------------------ C3
\* C3: of two orders resting on the same side at the same price, the later
\* one gets a fill from a match only if that match fills the earlier one
\* completely.
C3_PriceTimePriority ==
    \A c \in MatchesFromHere :
        \A a, b \in RestingOn(orders, c.hit) :
            (/\ orders[a].price = orders[b].price
             /\ orders[a].ts < orders[b].ts
             /\ b \in FilledSlots(c.m.fills))
            => FilledQty(c.m.fills, a) = orders[a].qty

\* ------------------------------------------------------------------ C4
\* C4: a market order fills an order at a worse price only if it fills every
\* order resting at a better price of that side completely.
C4_BestPriceFirst ==
    \A side \in Sides, q \in PosQtys :
        LET m   == market_match(side, q)
            hit == Opposite(side)
        IN \A a, b \in RestingOn(orders, hit) :
              (/\ Better(hit, orders[a].price, orders[b].price)
               /\ b \in FilledSlots(m.fills))
              => FilledQty(m.fills, a) = orders[a].qty

\* ------------------------------------------------------------------ C5
\* what best_bid / best_ask has to report for a side, from the resting orders
ExpectedBest(side) ==
    LET R == RestingOn(orders, side)
    IN IF R = {} THEN InvalidInfo
       ELSE LET best == IF side = Buy
                        THEN SetMax({orders[i].price : i \in R})
                        ELSE SetMin({orders[i].price : i \in R})
            IN [valid |-> TRUE, price |-> best,
                qty |-> TotalQty(orders, {i \in R : orders[i].price = best})]

\* C5: best_bid() is valid iff a buy order rests, and then reports the
\* highest resting buy price with the summed quantity resting at it;
\* best_ask() the same for the lowest resting sell price.
C5_BestQuotes ==
    /\ best_bid = ExpectedBest(Buy)
    /\ best_ask = ExpectedBest(Sell)

\* ------------------------------------------------------------------ C6
\* C6: the book is never left crossed: whenever best_bid() and best_ask()
\* are both valid, best_bid().price < best_ask().price.
C6_NeverCrossed ==
    (best_bid.valid /\ best_ask.valid) => best_bid.price < best_ask.price

\* a limit order has crossed, traded part of its quantity and come to rest
\* with the rest, and both sides still quote
C6_Witness ==
    /\ last.op \in {"add_limit_order", "add_limit_order_with_id"}
    /\ last.filled > 0
    /\ last.remaining > 0
    /\ best_bid.valid
    /\ best_ask.valid

\* ------------------------------------------------------------------ C7
\* C7: every MatchResult of execute_market_order has
\* filled + remaining = requested, and for requested > 0 also
\* 0 <= filled <= requested and remaining >= 0.
C7_MatchResultAccounting ==
    last.op = "execute_market_order" =>
        /\ last.filled + last.remaining = last.requested
        /\ last.requested > 0 =>
              /\ 0 <= last.filled
              /\ last.filled <= last.requested
              /\ last.remaining >= 0

\* a market order that the book filled only in part
C7_Witness ==
    /\ last.op = "execute_market_order"
    /\ last.filled > 0
    /\ last.remaining > 0

\* ------------------------------------------------------------------ C8
\* C8: the MatchResult of execute_market_order carries the fills as trades,
\* and their quantities sum to filled.
C8_TradesSumToFilled ==
    last.op = "execute_market_order" =>
        SumSeq(last.trades, "qty") = last.filled

\* ------------------------------------------------------------------ C9
\* C9: add_limit_order(side, p, q) with q > 0 matches exactly min(q, X), X
\* the quantity resting opposite at crossing prices, trades at no price
\* beyond p, and rests q - min(q, X) at the tail of the level at p when that
\* is positive; with residual 0 nothing is inserted and no id is registered.
C9_CrossingLimit ==
    [][\A side \in Sides, p \in Prices, q \in PosQtys :
          (/\ last'.op = "add_limit_order"
           /\ last'.requested = q
           /\ add_limit_order(side, p, q)) =>
              LET X       == TotalQty(orders, CrossingSlots(orders, side, p))
                  m       == match_incoming_limit(BookState(q), side, p)
                  matched == Min(q, X)
                  book1   == IF side = Buy THEN bids' ELSE asks'
              IN /\ last'.filled = matched
                 /\ last'.remaining = q - matched
                 /\ \A k \in DOMAIN m.fills : Crosses(side, p, m.fills[k].price)
                 /\ q - matched > 0 =>
                       /\ last'.ret \in DOMAIN id_to_index'
                       /\ p \in DOMAIN book1
                       /\ book1[p][Len(book1[p])] = id_to_index'[last'.ret]
                       /\ LET ord == orders'[id_to_index'[last'.ret]]
                          IN /\ ord.active
                             /\ ord.side = side
                             /\ ord.price = p
                             /\ ord.qty = q - matched
                 /\ q - matched = 0 =>
                       /\ last'.ret = 0
                       /\ DOMAIN id_to_index' \subseteq DOMAIN id_to_index
                       /\ RestingSlots(orders') \subseteq RestingSlots(orders)]_vars

\* ----------------------------------------------------------------- C10
\* C10: add_limit_order returns 0 exactly when qty <= 0 or the order was
\* fully matched as taker; otherwise it returns a non-zero id greater than
\* every id it returned before (since construction or the last clear), and
\* that id identifies the order now resting.
C10_ReturnedId ==
    [][\A side \in Sides, p \in Prices, q \in QtyInputs :
          (/\ last'.op = "add_limit_order"
           /\ last'.requested = q
           /\ add_limit_order(side, p, q)) =>
              /\ (last'.ret = 0) <=> (q <= 0 \/ last'.filled = q)
              /\ last'.ret # 0 =>
                    /\ \A i \in issued : last'.ret > i
                    /\ last'.ret \in DOMAIN id_to_index'
                    /\ LET ord == orders'[id_to_index'[last'.ret]]
                       IN /\ ord.id = last'.ret
                          /\ ord.active
                          /\ ord.side = side
                          /\ ord.price = p
                          /\ ord.qty = q - last'.filled
                          /\ ord.ts = clock']_vars

\* add_limit_order has returned an id after having returned others before
C10_Witness ==
    /\ last.op = "add_limit_order"
    /\ last.ret # 0
    /\ issued \ {last.ret} # {}

\* ------------------------------------------------------------------
\* Observations on a book record (what the const interface shows of it)
BestBidOf(st) == LevelInfoOf(st.bids, Buy, st.orders)
BestAskOf(st) == LevelInfoOf(st.asks, Sell, st.orders)
EmptyOf(st)   == DOMAIN st.bids = {} /\ DOMAIN st.asks = {}

\* ids for which cancel would return true
CancellableIds(st) ==
    {id \in DOMAIN st.index :
        st.orders[st.index[id]].active /\ st.orders[st.index[id]].qty > 0}

\* the resting orders queued in the level of a side at price p, in FIFO order
Queue(st, side, p) ==
    IF p \in DOMAIN BookOf(st, side)
    THEN Restrict(BookOf(st, side)[p], RestingSlots(st.orders))
    ELSE <<>>

\* the resting orders of both sides: which they are, with their quantities,
\* and how they queue in the levels
Resting(st) ==
    [orders |-> [i \in RestingSlots(st.orders) |-> st.orders[i]],
     queue  |-> [side \in Sides |-> [p \in Prices |-> Queue(st, side, p)]]]

\* the book before a call
Here == BookState(0)

RestingIds(st) == {st.orders[i].id : i \in RestingSlots(st.orders)}

\* C13: cancel(id) for an id that identifies no resting order returns false
\* and changes nothing: levels, orders, free list and id index stay as they
\* are, and with them the best quotes.
C13_CancelUnknownNoOp ==
    \A id \in CancelIds :
        id \notin RestingIds(Here) =>
            LET c == cancel_on(Here, id)
            IN /\ ~c.ret
               /\ c.st = Here
               /\ BestBidOf(c.st) = best_bid
               /\ BestAskOf(c.st) = best_ask

\* cancel has returned false for an id that add_limit_order had handed out
\* and that no longer identifies a resting order, while other orders rest
C13_Witness ==
    /\ last.op = "cancel"
    /\ last.ret = 0
    /\ RestingSlots(orders) # {}
    /\ issued \ RestingIds(Here) # {}

\* ----------------------------------------------------------------- C14
\* add_limit_order hands out every id once between two clears, so an id can
\* be given to a second order only through add_limit_order_with_id: id was
\* not reused if the caller cannot choose it, or if no order with a
\* caller-chosen id has come to rest yet (every arrival got a generated id).
NotReused(id) == id \notin IdInputs \/ clock = Cardinality(issued)

\* C14: for an id that was given to one order only, cancel(id) returns true
\* exactly when that order rests with remaining quantity, a second cancel(id)
\* right after returns false, and once the order is gone (cancelled or fully
\* filled) cancel(id) keeps returning false until an add gives the id out
\* again.
C14_CancelTrueOnce ==
    [][\A id \in CancelIds :
          NotReused(id) =>
              LET c == cancel_on(Here, id)
              IN /\ c.ret <=> id \in RestingIds(Here)
                 /\ c.ret => ~cancel_on(c.st, id).ret
                 /\ c.ret => id \notin RestingIds(c.st)
                 /\ (~c.ret /\ cancel_on(Here, id)'.ret) =>
                       /\ last'.op \in {"add_limit_order",
                                        "add_limit_order_with_id"}
                       /\ last'.ret = id
                       /\ last'.remaining > 0]_vars

\* cancel has returned true while an order that arrived earlier or later is
\* already gone and another still rests, all ids given out once
C14_Witness ==
    /\ last.op = "cancel"
    /\ last.ret = 1
    /\ Len(free_indices) >= 2
    /\ RestingSlots(orders) # {}
    /\ clock = Cardinality(issued)

\* ----------------------------------------------------------------- C15
\* C15: a successful cancel(id) removes exactly one order: every other
\* resting order, of either side and at any price, keeps its quantity, its
\* level and its place relative to the other orders of the level.
C15_CancelFrame ==
    \A id \in CancelIds :
        LET c == cancel_on(Here, id)
        IN c.ret =>
              LET gone == id_to_index[id]
              IN /\ orders[gone].id = id
                 /\ RestingSlots(c.st.orders) = RestingSlots(orders) \ {gone}
                 /\ \A i \in RestingSlots(c.st.orders) :
                       c.st.orders[i] = orders[i]
                 /\ \A side \in Sides, p \in Prices :
                       Queue(c.st, side, p) = RemoveAll(Queue(Here, side, p), gone)

\* the order at the head of a level with a second order behind it can be
\* cancelled while the other side has a resting order
C15_Witness ==
    \E id \in CancelIds :
        LET c == cancel_on(Here, id)
        IN /\ c.ret
           /\ LET ord == orders[id_to_index[id]]
                  q   == Queue(Here, ord.side, ord.price)
              IN /\ Len(q) >= 2
                 /\ q[1] = id_to_index[id]
                 /\ Queue(c.st, ord.side, ord.price) = Tail(q)
                 /\ RestingOn(orders, Opposite(ord.side)) # {}

\* ----------------------------------------------------------------- C16
\* the resting orders that carry id
Carrying(st, id) == {i \in RestingSlots(st.orders) : st.orders[i].id = id}

\* C16: when add_limit_order_with_id(id, ...) comes to rest under an id that
\* identifies one resting order, the old order is gone as if it had been
\* cancelled: the best quotes and the cancellable ids are those of the book
\* with the old order cancelled and the new one rested, and a cancel(id)
\* right after returns true and leaves the quotes of the book without both.
C16_SupersedeRemovesOld ==
    \A id \in CancelIds, side \in Sides, p \in Prices, q \in PosQtys :
        LET a == add_limit_order_with_id_on(BookState(q), id, side, p, clock + 1)
            m == match_incoming_limit(BookState(q), side, p)
        IN (/\ a.rested
            /\ id \in CancellableIds(m)
            /\ Cardinality(Carrying(m, id)) = 1) =>
              LET without == cancel_on(m, id).st
                  clean   == RestOrder(without, id, side, p, clock + 1)
                  c       == cancel_on(a.st, id)
              IN /\ BestBidOf(a.st) = BestBidOf(clean)
                 /\ BestAskOf(a.st) = BestAskOf(clean)
                 /\ CancellableIds(a.st) = CancellableIds(clean)
                 /\ c.ret
                 /\ id \notin RestingIds(c.st)
                 /\ BestBidOf(c.st) = BestBidOf(without)
                 /\ BestAskOf(c.st) = BestAskOf(without)

\* ----------------------------------------------------------------- C17
NonPosQtys == {q \in QtyInputs : q <= 0}

\* C17: with qty <= 0 add_limit_order returns 0, add_limit_order_with_id
\* returns the id it was given, execute_market_order returns requested = qty,
\* filled = 0, remaining = qty and no trades; none of the three changes a
\* level, an order, the free list, the id index or the id counter.
C17_NonPositiveQtyNoOp ==
    [][\A q \in NonPosQtys, side \in Sides :
          /\ \A p \in Prices :
                (/\ last'.op = "add_limit_order"
                 /\ last'.requested = q
                 /\ add_limit_order(side, p, q)) =>
                    /\ last'.ret = 0
                    /\ UNCHANGED <<bids, asks, orders, free_indices,
                                   id_to_index, next_id>>
          /\ \A p \in Prices, id \in IdInputs :
                (/\ last'.op = "add_limit_order_with_id"
                 /\ last'.requested = q
                 /\ add_limit_order_with_id(id, side, p, q)) =>
                    /\ last'.ret = id
                    /\ UNCHANGED <<bids, asks, orders, free_indices,
                                   id_to_index, next_id>>
          /\ (/\ last'.op = "execute_market_order"
              /\ last'.requested = q
              /\ execute_market_order(side, q)) =>
                    /\ last'.filled = 0
                    /\ last'.remaining = q
                    /\ last'.trades = <<>>
                    /\ UNCHANGED <<bids, asks, orders, free_indices,
                                   id_to_index, next_id>>]_vars

\* a market order of negative quantity has returned while both sides quote
C17_Witness ==
    /\ last.op = "execute_market_order"
    /\ last.requested < 0
    /\ best_bid.valid
    /\ best_ask.valid

\* ----------------------------------------------------------------- C18
\* a level holds at least one index of an active order with qty > 0
LiveLevel(book, p) ==
    \E k \in DOMAIN book[p] :
        orders[book[p][k]].active /\ orders[book[p][k]].qty > 0

\* C18: between calls every level of the bid and of the ask book holds at
\* least one active order with qty > 0; empty() is true iff no order rests,
\* and best_bid() / best_ask() is invalid only when its side has no level.
C18_LevelsAreLive ==
    /\ \A p \in DOMAIN bids : LiveLevel(bids, p)
    /\ \A p \in DOMAIN asks : LiveLevel(asks, p)
    /\ empty <=> RestingSlots(orders) = {}
    /\ ~best_bid.valid => DOMAIN bids = {}
    /\ ~best_ask.valid => DOMAIN asks = {}

\* ----------------------------------------------------------------- C19
\* C19: after clear() the book is as constructed: empty() is true, both best
\* quotes are invalid, the pool, the free list and the id index are empty,
\* cancel returns false for every id, and an add_limit_order that rests is
\* given id 1.
C19_ClearResets ==
    last.op = "clear" =>
        /\ empty
        /\ ~best_bid.valid
        /\ ~best_ask.valid
        /\ orders = <<>>
        /\ free_indices = <<>>
        /\ id_to_index = EmptyMap
        /\ \A id \in CancelIds : ~cancel_on(Here, id).ret
        /\ \A side \in Sides, p \in Prices, q \in PosQtys :
              LET a == add_limit_order_on(BookState(q), next_id, side, p,
                                          clock + 1)
              IN a.rested /\ a.ret = 1

\* clear() has returned
C19_Witness ==
    /\ last.op = "clear"
    /\ empty
    /\ next_id = 1

\* ==================================================================
\* utils::SpscQueue<T> (src/include/utils/spsc_queue.hpp), one producer
\* thread and one consumer thread.  A step of a thread is one load or store
\* of head_ / tail_ or one access to a slot of buffer_; buffer_[i] of the C++
\* code is buffer[i + 1].
MaxCapacity == 3    \* capacities are 1..MaxCapacity
MaxPush     == 4    \* values the producer of the queue on its own offers

\* std::size_t SpscQueue::increment(std::size_t idx)
increment(idx) == IF idx + 1 = capacity THEN 0 ELSE idx + 1

\* bool SpscQueue::full() / bool SpscQueue::empty()
full == increment(head) = tail

queue_empty == tail = head

\* ---- bool SpscQueue::push(const T& value), producer.value the argument
\* push that takes head itself for next
PushLoadHeadNoIncrement ==
    /\ producer.pc = "push"
    /\ producer' = [producer EXCEPT !.pc = "push_check", !.head = head,
                                    !.next = head]
    /\ UNCHANGED <<capacity, buffer, head, tail, consumer, pushed, popped,
                   bookVars, pipeVars>>

\* auto head = head_.load(relaxed); auto next = increment(head);
PushLoadHead ==
    /\ producer.pc = "push"
    /\ producer' = [producer EXCEPT !.pc = "push_check", !.head = head,
                                    !.next = increment(head)]
    /\ UNCHANGED <<capacity, buffer, head, tail, consumer, pushed, popped,
                   bookVars, pipeVars>>

\* push without the test for a full queue
PushCheckNeverFull ==
    /\ producer.pc = "push_check"
    /\ producer' = [producer EXCEPT !.pc = "push_write"]
    /\ UNCHANGED <<capacity, buffer, head, tail, consumer, pushed, popped,
                   bookVars, pipeVars>>

\* push that reports a full queue whatever tail_ is
PushCheckAlwaysFull ==
    /\ producer.pc = "push_check"
    /\ producer' = [producer EXCEPT !.pc = "push_false"]
    /\ UNCHANGED <<capacity, buffer, head, tail, consumer, pushed, popped,
                   bookVars, pipeVars>>

\* if (next == tail_.load(acquire)) return false;
PushCheck ==
    /\ producer.pc = "push_check"
    /\ producer' = [producer EXCEPT
                      !.pc = IF producer.next = tail THEN "push_false"
                                                     ELSE "push_write"]
    /\ UNCHANGED <<capacity, buffer, head, tail, consumer, pushed, popped,
                   bookVars, pipeVars>>

\* buffer_[head] = value;
PushWrite ==
    /\ producer.pc = "push_write"
    /\ buffer' = [buffer EXCEPT ![producer.head + 1] = producer.value]
    /\ producer' = [producer EXCEPT !.pc = "push_store"]
    /\ UNCHANGED <<capacity, head, tail, consumer, pushed, popped,
                   bookVars, pipeVars>>

\* head_.store(next, release); return true;
PushStore ==
    /\ producer.pc = "push_store"
    /\ head' = producer.next
    /\ pushed' = Append(pushed, producer.value)
    /\ producer' = [producer EXCEPT !.pc = "push_true"]
    /\ UNCHANGED <<capacity, buffer, tail, consumer, popped, bookVars, pipeVars>>

\* ---- bool SpscQueue::pop(T& out), consumer.out the out-parameter
\* auto tail = tail_.load(relaxed);
PopLoadTail ==
    /\ consumer.pc = "pop"
    /\ consumer' = [consumer EXCEPT !.pc = "pop_check", !.tail = tail]
    /\ UNCHANGED <<capacity, buffer, head, tail, producer, pushed, popped,
                   bookVars, pipeVars>>

\* pop that resets the out-parameter when the queue is empty
PopCheckClearsOut ==
    /\ consumer.pc = "pop_check"
    /\ consumer' = IF consumer.tail = head
                   THEN [consumer EXCEPT !.pc = "pop_false", !.out = 0]
                   ELSE [consumer EXCEPT !.pc = "pop_read"]
    /\ UNCHANGED <<capacity, buffer, head, tail, producer, pushed, popped,
                   bookVars, pipeVars>>

\* pop without the test for an empty queue
PopCheckNeverEmpty ==
    /\ consumer.pc = "pop_check"
    /\ consumer' = [consumer EXCEPT !.pc = "pop_read"]
    /\ UNCHANGED <<capacity, buffer, head, tail, producer, pushed, popped,
                   bookVars, pipeVars>>

\* if (tail == head_.load(acquire)) return false;
PopCheck ==
    /\ consumer.pc = "pop_check"
    /\ consumer' = [consumer EXCEPT
                      !.pc = IF consumer.tail = head THEN "pop_false"
                                                     ELSE "pop_read"]
    /\ UNCHANGED <<capacity, buffer, head, tail, producer, pushed, popped,
                   bookVars, pipeVars>>

\* out = buffer_[tail];
PopRead ==
    /\ consumer.pc = "pop_read"
    /\ consumer' = [consumer EXCEPT !.pc = "pop_store",
                                    !.out = buffer[consumer.tail + 1]]
    /\ UNCHANGED <<capacity, buffer, head, tail, producer, pushed, popped,
                   bookVars, pipeVars>>

\* tail_.store(increment(tail), release); return true;
PopStore ==
    /\ consumer.pc = "pop_store"
    /\ tail' = increment(consumer.tail)
    /\ popped' = Append(popped, consumer.out)
    /\ consumer' = [consumer EXCEPT !.pc = "pop_true"]
    /\ UNCHANGED <<capacity, buffer, head, producer, pushed, bookVars, pipeVars>>

\* ---- the queue on its own: a producer that offers the values 1, 2, ...
\* (each again until push takes it) and a consumer that keeps calling pop
\* SpscQueue(capacity): buffer_(capacity) value-initialised, head_ = tail_ = 0
QueueInit ==
    /\ BookInit
    /\ capacity \in 1..MaxCapacity
    /\ buffer = [i \in 1..capacity |-> 0]
    /\ head = 0
    /\ tail = 0
    /\ producer = [pc |-> "idle", head |-> 0, next |-> 0, value |-> 0, seq |-> 1]
    /\ consumer = [pc |-> "idle", tail |-> 0, out |-> 0]
    /\ pushed = <<>>
    /\ popped = <<>>
    /\ generator = [num_events |-> 0, generated |-> 0, next_id |-> 1,
                    active_ids |-> <<>>]
    /\ producer_done = FALSE
    /\ consumed_count = 0
    /\ sent = <<>>

\* the producer calls push(seq)
ProducerCall ==
    /\ producer.pc = "idle"
    /\ producer.seq <= MaxPush
    /\ producer' = [producer EXCEPT !.pc = "push", !.value = producer.seq]
    /\ UNCHANGED <<capacity, buffer, head, tail, consumer, pushed, popped,
                   bookVars, pipeVars>>

\* push has returned: the next value after true, the same value after false
ProducerReturn ==
    /\ producer.pc \in {"push_true", "push_false"}
    /\ producer' = [producer EXCEPT
                      !.pc = "idle",
                      !.seq = IF producer.pc = "push_true" THEN @ + 1 ELSE @]
    /\ UNCHANGED <<capacity, buffer, head, tail, consumer, pushed, popped,
                   bookVars, pipeVars>>

\* the consumer calls pop(out)
ConsumerCall ==
    /\ consumer.pc = "idle"
    /\ consumer' = [consumer EXCEPT !.pc = "pop"]
    /\ UNCHANGED <<capacity, buffer, head, tail, producer, pushed, popped,
                   bookVars, pipeVars>>

ConsumerReturn ==
    /\ consumer.pc \in {"pop_true", "pop_false"}
    /\ consumer' = [consumer EXCEPT !.pc = "idle"]
    /\ UNCHANGED <<capacity, buffer, head, tail, producer, pushed, popped,
                   bookVars, pipeVars>>

QueueNext ==
    \/ ProducerCall
    \/ PushLoadHead
    \/ PushCheck
    \/ PushWrite
    \/ PushStore
    \/ ProducerReturn
    \/ ConsumerCall
    \/ PopLoadTail
    \/ PopCheck
    \/ PopRead
    \/ PopStore
    \/ ConsumerReturn

SpecQueue == QueueInit /\ [][QueueNext]_vars

\* ----------------------------------------------------------------- C21
IsPrefix(s, t) == Len(s) <= Len(t) /\ s = SubSeq(t, 1, Len(s))

\* C21: in every interleaving of the steps of one producer and one consumer
\* the values the successful pops returned are, in order, the first of the
\* values the successful pushes took: nothing lost, doubled or reordered.
C21_Fifo == IsPrefix(popped, pushed)

\* every value offered has been pushed and popped through a queue smaller
\* than their number, so the indices have wrapped
C21_Witness ==
    /\ Len(popped) = MaxPush
    /\ popped = pushed
    /\ capacity > 1
    /\ capacity < MaxPush

\* ----------------------------------------------------------------- C22
\* values pushed and not yet popped
Queued == Len(pushed) - Len(popped)

\* C22: a queue of capacity C never holds more than C - 1 values; push, at
\* the moment it compares with tail_, goes on to succeed iff fewer than
\* C - 1 values are queued, so with both threads between calls a push
\* succeeds iff the queue holds fewer than C - 1, and with C = 1 none does.
C22_HoldsCapacityMinusOne ==
    [][/\ Queued <= capacity - 1
       /\ Queued' <= capacity - 1
       /\ PushCheck => ((producer'.pc = "push_write") <=> (Queued < capacity - 1))
       /\ (producer.pc = "idle" /\ consumer.pc = "idle") =>
             (~full <=> Queued < capacity - 1)
       /\ capacity = 1 => pushed' = <<>>]_vars

\* push has returned false on a queue that holds C - 1 values, C > 1
C22_Witness ==
    /\ producer.pc = "push_false"
    /\ capacity > 1
    /\ Queued = capacity - 1
    /\ consumer.pc = "idle"

\* ----------------------------------------------------------------- C23
\* the slots of buffer_ other than slot i (0-based) are unchanged
OnlySlotWritten(i) ==
    \A k \in DOMAIN buffer : k # i + 1 => buffer'[k] = buffer[k]

\* C23: the steps of a push that returns false leave buffer_, head_ and
\* tail_ unchanged, the steps of a pop that returns false leave the
\* out-parameter, buffer_, head_ and tail_ unchanged; a push that returns
\* true writes the slot at head and then moves head_ by one (mod C), never
\* tail_; a pop that returns true reads into out and then moves tail_ by one
\* (mod C), never head_ or buffer_.
C23_ReturnsWithoutSideEffects ==
    [][/\ (producer' # producer /\ producer.pc \in {"push", "push_check"}) =>
             UNCHANGED <<buffer, head, tail>>
       /\ (producer' # producer /\ producer.pc = "push_write") =>
             /\ UNCHANGED <<head, tail>>
             /\ OnlySlotWritten(head)
             /\ buffer'[head + 1] = producer.value
       /\ (producer' # producer /\ producer.pc = "push_store") =>
             /\ head' = (head + 1) % capacity
             /\ UNCHANGED <<buffer, tail>>
             /\ producer'.pc = "push_true"
       /\ (consumer' # consumer /\ consumer.pc \in {"pop", "pop_check"}) =>
             /\ UNCHANGED <<buffer, head, tail>>
             /\ consumer'.out = consumer.out
       /\ (consumer' # consumer /\ consumer.pc = "pop_read") =>
             UNCHANGED <<buffer, head, tail>>
       /\ (consumer' # consumer /\ consumer.pc = "pop_store") =>
             /\ tail' = (tail + 1) % capacity
             /\ UNCHANGED <<buffer, head>>
             /\ consumer'.pc = "pop_true"
       /\ producer'.pc = "push_false" => producer.pc \in {"push_check", "push_false"}
       /\ consumer'.pc = "pop_false" => consumer.pc \in {"pop_check", "pop_false"}]_vars

\* pop has returned false with the value of an earlier pop still in out,
\* and push has returned false
C23_Witness ==
    /\ consumer.pc = "pop_false"
    /\ consumer.out # 0
    /\ producer.pc = "push_false"

\* ==================================================================
\* The two-thread pipeline of src/app/mt_bench_main.cpp: the producer thread
\* draws events from the generator and pushes them, the consumer thread pops
\* them and applies them to the book.
MaxEvents == 2      \* num_events is 0..MaxEvents

\* trading::Event{} and the TimedEvent a value-initialised slot holds
DefaultEvent == [type |-> "Add", side |-> Buy, price |-> 0, qty |-> 0, id |-> 0]

DefaultTimedEvent == [ev |-> DefaultEvent, id |-> 0]

EndEvent == [DefaultEvent EXCEPT !.type = "End"]

\* active_ids_[idx] = active_ids_.back(); active_ids_.pop_back();
SwapRemove(ids, idx) ==
    SubSeq([ids EXCEPT ![idx] = ids[Len(ids)]], 1, Len(ids) - 1)

\* Event EventGenerator::next(): the events it can return with the state it
\* is left in; the draws from rng_ are the choices
GeneratorNext(g) ==
    IF g.generated >= g.num_events
    THEN {[ev |-> EndEvent, g |-> g]}
    ELSE LET adds ==
                 {[ev |-> [type |-> "Add", side |-> side, price |-> price,
                           qty |-> qty, id |-> g.next_id],
                   g  |-> [g EXCEPT !.next_id = @ + 1,
                                    !.active_ids = Append(@, g.next_id),
                                    !.generated = @ + 1]] :
                     side \in Sides, price \in Prices, qty \in PosQtys}
             markets ==
                 {[ev |-> [DefaultEvent EXCEPT !.type = "Market", !.side = side,
                                               !.qty = qty],
                   g  |-> [g EXCEPT !.generated = @ + 1]] :
                     side \in Sides, qty \in PosQtys}
             cancels ==
                 {[ev |-> [DefaultEvent EXCEPT !.type = "Cancel",
                                               !.id = g.active_ids[idx]],
                   g  |-> [g EXCEPT !.active_ids = SwapRemove(@, idx),
                                    !.generated = @ + 1]] :
                     idx \in DOMAIN g.active_ids}
         IN IF g.active_ids = <<>> THEN adds
            ELSE adds \cup markets \cup cancels

\* main: queue(queue_capacity), book, producer_done{false}, consumed_count{0},
\* the two threads at the top of their loops
PipeInit ==
    /\ BookInit
    /\ capacity \in 2..MaxCapacity
    /\ buffer = [i \in 1..capacity |-> DefaultTimedEvent]
    /\ head = 0
    /\ tail = 0
    /\ producer = [pc |-> "gen", head |-> 0, next |-> 0,
                   value |-> DefaultTimedEvent, next_id |-> 0]
    /\ consumer = [pc |-> "pop", tail |-> 0, out |-> DefaultTimedEvent]
    /\ generator \in {[num_events |-> n, generated |-> 0, next_id |-> 1,
                       active_ids |-> <<>>] : n \in 0..MaxEvents}
    /\ producer_done = FALSE
    /\ consumed_count = 0
    /\ pushed = <<>>
    /\ popped = <<>>
    /\ sent = <<>>

\* ---- producer_thread
\* base_ev = generator.next(); tev.ev = base_ev; tev.id = next_id++ (or -1)
ProducerGenerate ==
    /\ producer.pc = "gen"
    /\ \E n \in GeneratorNext(generator) :
          /\ generator' = n.g
          /\ IF n.ev.type = "End"
             THEN /\ producer' = [producer EXCEPT
                                    !.pc = "push",
                                    !.value = [ev |-> n.ev, id |-> -1]]
                  /\ sent' = sent
             ELSE /\ producer' = [producer EXCEPT
                                    !.pc = "push",
                                    !.value = [ev |-> n.ev, id |-> producer.next_id],
                                    !.next_id = @ + 1]
                  /\ sent' = Append(sent, n.ev)
    /\ UNCHANGED <<capacity, buffer, head, tail, consumer, pushed, popped,
                   producer_done, consumed_count, bookVars>>

\* for (;;) { if (queue.push(tev)) break; yield(); } if (End) break;
ProducerPushed ==
    /\ producer.pc = "push_true"
    /\ producer' = [producer EXCEPT
                      !.pc = IF producer.value.ev.type = "End" THEN "set_done"
                                                               ELSE "gen"]
    /\ UNCHANGED <<capacity, buffer, head, tail, consumer, pushed, popped,
                   bookVars, pipeVars>>

\* a producer that does not insist on the End marker when the ring is full
ProducerRetrySkipsEnd ==
    /\ producer.pc = "push_false"
    /\ producer' = [producer EXCEPT
                      !.pc = IF producer.value.ev.type = "End" THEN "set_done"
                                                               ELSE "push"]
    /\ UNCHANGED <<capacity, buffer, head, tail, consumer, pushed, popped,
                   bookVars, pipeVars>>

\* a producer thread that ends when the ring is full
ProducerRetryQuits ==
    /\ producer.pc = "push_false"
    /\ producer' = [producer EXCEPT !.pc = "done"]
    /\ UNCHANGED <<capacity, buffer, head, tail, consumer, pushed, popped,
                   bookVars, pipeVars>>

\* a producer that gives the event up when the ring is full
ProducerRetryDrops ==
    /\ producer.pc = "push_false"
    /\ producer' = [producer EXCEPT
                      !.pc = IF producer.value.ev.type = "End" THEN "push"
                                                               ELSE "gen"]
    /\ UNCHANGED <<capacity, buffer, head, tail, consumer, pushed, popped,
                   bookVars, pipeVars>>

\* push returned false: yield and push the same tev again
ProducerRetry ==
    /\ producer.pc = "push_false"
    /\ producer' = [producer EXCEPT !.pc = "push"]
    /\ UNCHANGED <<capacity, buffer, head, tail, consumer, pushed, popped,
                   bookVars, pipeVars>>

\* producer_done.store(true, release); the thread ends
ProducerDone ==
    /\ producer.pc = "set_done"
    /\ producer_done' = TRUE
    /\ producer' = [producer EXCEPT !.pc = "done"]
    /\ UNCHANGED <<capacity, buffer, head, tail, consumer, pushed, popped,
                   generator, consumed_count, sent, bookVars>>

\* ---- consumer_thread
\* pop returned false: if (producer_done.load(acquire)) ... else yield, continue
ConsumerCheckDone ==
    /\ consumer.pc = "pop_false"
    /\ consumer' = [consumer EXCEPT
                      !.pc = IF producer_done THEN "check_empty" ELSE "pop"]
    /\ UNCHANGED <<capacity, buffer, head, tail, producer, pushed, popped,
                   bookVars, pipeVars>>

\* a consumer that leaves as soon as it has seen producer_done
ConsumerCheckEmptySkipped ==
    /\ consumer.pc = "check_empty"
    /\ consumer' = [consumer EXCEPT !.pc = "done"]
    /\ UNCHANGED <<capacity, buffer, head, tail, producer, pushed, popped,
                   bookVars, pipeVars>>

\* if (queue.empty()) break; else yield, continue
ConsumerCheckEmpty ==
    /\ consumer.pc = "check_empty"
    /\ consumer' = [consumer EXCEPT !.pc = IF queue_empty THEN "done" ELSE "pop"]
    /\ UNCHANGED <<capacity, buffer, head, tail, producer, pushed, popped,
                   bookVars, pipeVars>>

\* pop returned true with the End event: break
ConsumerEnd ==
    /\ consumer.pc = "pop_true"
    /\ consumer.out.ev.type = "End"
    /\ consumer' = [consumer EXCEPT !.pc = "done"]
    /\ UNCHANGED <<capacity, buffer, head, tail, producer, pushed, popped,
                   bookVars, pipeVars>>

\* the switch over ev.type, then consumed_count.fetch_add(1)
ConsumerDispatch ==
    /\ consumer.pc = "pop_true"
    /\ consumer.out.ev.type # "End"
    /\ LET ev == consumer.out.ev
       IN CASE ev.type = "Add" ->
                 add_limit_order_with_id(ev.id, ev.side, ev.price, ev.qty)
            [] ev.type = "Market" -> execute_market_order(ev.side, ev.qty)
            [] ev.type = "Cancel" -> cancel(ev.id)
    /\ consumed_count' = consumed_count + 1
    /\ consumer' = [consumer EXCEPT !.pc = "pop"]
    /\ UNCHANGED <<capacity, buffer, head, tail, producer, pushed, popped,
                   generator, producer_done, sent>>

ProducerStep ==
    \/ ProducerGenerate
    \/ PushLoadHead
    \/ PushCheck
    \/ PushWrite
    \/ PushStore
    \/ ProducerPushed
    \/ ProducerRetry
    \/ ProducerDone

ConsumerStep ==
    \/ PopLoadTail
    \/ PopCheck
    \/ PopRead
    \/ PopStore
    \/ ConsumerCheckDone
    \/ ConsumerCheckEmpty
    \/ ConsumerEnd
    \/ ConsumerDispatch

PipeNext == ProducerStep \/ ConsumerStep

SpecPipe == PipeInit /\ [][PipeNext]_vars

\* both threads are scheduled again and again (yield() hands the core over)
SpecPipeFair == SpecPipe /\ WF_vars(ProducerStep) /\ WF_vars(ConsumerStep)

\* ------------------------------------------------- pipeline claims
\* the fields of a book record that make up the OrderBook
BookFields(st) ==
    [bids |-> st.bids, asks |-> st.asks, orders |-> st.orders,
     free |-> st.free, index |-> st.index]

EmptyBook ==
    [bids |-> EmptyMap, asks |-> EmptyMap, orders |-> <<>>, free |-> <<>>,
     index |-> EmptyMap, qty |-> 0, fills |-> <<>>]

\* One event applied by a single thread to the book b.st, as the switch of
\* the consumer applies it; b.clock counts the orders that rested so far.
ApplyEvent(b, ev) ==
    CASE ev.type = "Add" ->
           LET r == add_limit_order_with_id_on([b.st EXCEPT !.qty = ev.qty],
                                               ev.id, ev.side, ev.price,
                                               b.clock + 1)
           IN [st    |-> [r.st EXCEPT !.qty = 0],
               clock |-> IF r.rested THEN b.clock + 1 ELSE b.clock]
      [] ev.type = "Market" ->
           IF ev.qty <= 0
           THEN b
           ELSE [b EXCEPT !.st = match_on_book([b.st EXCEPT !.qty = ev.qty],
                                               Opposite(ev.side), AlwaysCross)]
      [] ev.type = "Cancel" -> [b EXCEPT !.st = cancel_on(b.st, ev.id).st]
      [] OTHER -> b

RECURSIVE ApplyAll(_, _)
ApplyAll(b, evs) ==
    IF evs = <<>> THEN b
    ELSE ApplyAll(ApplyEvent(b, Head(evs)), Tail(evs))

SingleThreaded(evs) == ApplyAll([st |-> EmptyBook, clock |-> 0], evs).st

BothJoined == producer.pc = "done" /\ consumer.pc = "done"

\* C24: the consumer applies to the book exactly the real events the producer
\* generated, each once and in generation order, whatever the interleaving
\* and the ring capacity (>= 2): what was pushed is the generated sequence
\* with its sequence numbers (then End), what was popped is a prefix of it,
\* the book is the single-threaded application of the first consumed_count
\* generated events, and once both threads are done it is the
\* single-threaded application of all of them.
C24_AppliedInOrder ==
    /\ Len(pushed) <= Len(sent) + 1
    /\ \A i \in 1..Len(pushed) :
          pushed[i] = IF i <= Len(sent) THEN [ev |-> sent[i], id |-> i - 1]
                                        ELSE [ev |-> EndEvent, id |-> -1]
    /\ IsPrefix(popped, pushed)
    /\ consumed_count \in {n \in {Len(popped) - 1, Len(popped)} : n >= 0}
    /\ BookFields(Here) = BookFields(SingleThreaded(SubSeq(sent, 1, consumed_count)))
    /\ BothJoined =>
          /\ consumed_count = Len(sent)
          /\ BookFields(Here) = BookFields(SingleThreaded(sent))

\* both threads joined after MaxEvents events went through the smallest ring
\* and left an order resting
C24_Witness ==
    /\ BothJoined
    /\ capacity = 2
    /\ consumed_count = MaxEvents
    /\ RestingIds(Here) # {}

\* C25: shutdown terminates.  Under fair scheduling of the two threads, for
\* every event count 0..MaxEvents and every capacity 2..MaxCapacity, the
\* producer eventually leaves its loop and sets producer_done and the consumer
\* eventually leaves its loop, so that both joins return.
C25_ShutdownTerminates == <>(BothJoined /\ producer_done)

\* both threads ended after the consumer took every event and the End marker
\* out of the ring
C25_Witness ==
    /\ BothJoined
    /\ producer_done
    /\ Len(popped) = generator.num_events + 1
    /\ generator.num_events = MaxEvents

\* C26: the consumer never exits early.  Once the consumer has left its loop
\* (by the End marker or by producer_done with an empty ring) the producer
\* has generated all num_events events, each of them was popped, in order,
\* and dispatched, consumed_count is num_events, and the End marker was
\* not counted.
C26_NoEarlyExit ==
    consumer.pc = "done" =>
        /\ generator.generated = generator.num_events
        /\ Len(sent) = generator.num_events
        /\ Len(popped) >= Len(sent)
        /\ \A i \in 1..Len(sent) : popped[i].ev = sent[i]
        /\ consumed_count = generator.num_events
        /\ \A i \in 1..Len(popped) :
              popped[i].ev.type = "End" => i = consumed_count + 1

\* the consumer left on the End marker, before the producer set producer_done
C26_Witness ==
    /\ consumer.pc = "done"
    /\ ~producer_done
    /\ consumer.out.ev.type = "End"
    /\ consumed_count = MaxEvents

\* ------------------------------------------------- passive adds only
\* A book that only ever receives add_limit_order calls that cross nothing:
\* no cancels, no market orders, no caller-chosen ids.
AddPassive ==
    /\ \E side \in Sides, price \in Prices, qty \in QtyInputs :
          /\ CrossingSlots(orders, side, price) = {}
          /\ add_limit_order(side, price, qty)
    /\ UNCHANGED <<queueVars, pipeVars>>

SpecAddOnly == Init /\ [][AddPassive]_vars

\* the better of the quoted price and p; p when nothing is quoted
ExtremeWith(side, info, p) ==
    IF ~info.valid THEN p
    ELSE IF side = Buy THEN (IF info.price > p THEN info.price ELSE p)
                       ELSE (IF info.price < p THEN info.price ELSE p)

\* C27: over sequences of non-crossing add_limit_order calls only,
\* best_bid().price is the maximum of the added bid prices and
\* best_ask().price the minimum of the added ask prices at all times: each
\* accepted add (qty > 0) makes its own side's best price the better of the
\* previous best and the added price and leaves the other side's quote alone;
\* a rejected add (qty <= 0) adds nothing and changes neither quote.
C27_BestIsExtremeOfAdded ==
    [][\A side \in Sides, price \in Prices, qty \in QtyInputs :
          (/\ CrossingSlots(orders, side, price) = {}
           /\ add_limit_order(side, price, qty))
          => IF qty <= 0
             THEN best_bid' = best_bid /\ best_ask' = best_ask
             ELSE IF side = Buy
                  THEN /\ best_bid'.valid
                       /\ best_bid'.price = ExtremeWith(Buy, best_bid, price)
                       /\ best_ask' = best_ask
                  ELSE /\ best_ask'.valid
                       /\ best_ask'.price = ExtremeWith(Sell, best_ask, price)
                       /\ best_bid' = best_bid]_vars

\* bids added at 1, 2 and 1 again: the best bid is the highest, not the last
C27_Witness ==
    /\ Len(orders) = 3
    /\ \A i \in 1..3 : orders[i].side = Buy /\ orders[i].active
    /\ orders[1].price = 1 /\ orders[2].price = 2 /\ orders[3].price = 1
    /\ best_bid.valid
    /\ best_bid.price = 2

\* ------------------------------------------------- adds and cancels, no crossing
AddPassiveWithId ==
    /\ \E id \in IdInputs, side \in Sides, price \in Prices, qty \in QtyInputs :
          /\ CrossingSlots(orders, side, price) = {}
          /\ add_limit_order_with_id(id, side, price, qty)
    /\ UNCHANGED <<queueVars, pipeVars>>

\* Every call sequence in which no order ever crosses: nothing is matched.
NextNoCross ==
    \/ AddPassive
    \/ AddPassiveWithId
    \/ Cancel

SpecNoCross == Init /\ [][NextNoCross]_vars

\* the resting orders that share side and price with slot idx, idx left out
OthersAt(ords, idx) ==
    {i \in RestingOn(ords, ords[idx].side) \ {idx} :
        ords[i].price = ords[idx].price}

\* C28: when orders resting at one price are cancelled one by one before any
\* crossing, every cancel that leaves another active order at the price
\* keeps the level, whose quantity (and the best quote, if the price is the
\* best one) is what remains, and the cancel of the last active order at the
\* price removes the level.
C28_LevelRemovedWithLastOrder ==
    [][\A id \in CancelIds :
          (id \in DOMAIN id_to_index /\ cancel_on(Here, id).ret /\ cancel(id))
          => LET idx    == id_to_index[id]
                 o      == orders[idx]
                 others == OthersAt(orders, idx)
                 after  == IF o.side = Buy THEN bids' ELSE asks'
                 quote  == IF o.side = Buy THEN best_bid' ELSE best_ask'
             IN IF others = {}
                THEN o.price \notin DOMAIN after
                ELSE /\ o.price \in DOMAIN after
                     /\ AggQty(after[o.price], orders') = TotalQty(orders, others)
                     /\ o.price = BookBegin(after, o.side)
                           => quote = [valid |-> TRUE, price |-> o.price,
                                       qty |-> TotalQty(orders, others)]]_vars

\* ------------------------------------------------- structural invariants
\* how often slot idx occurs in the index list lv
RECURSIVE Occurrences(_, _)
Occurrences(lv, idx) ==
    IF lv = <<>> THEN 0
    ELSE (IF Head(lv) = idx THEN 1 ELSE 0) + Occurrences(Tail(lv), idx)

\* the levels (side, price) whose index list holds slot idx
LevelsHolding(idx) ==
    {<<Buy, p>> : p \in {q \in DOMAIN bids : Occurrences(bids[q], idx) > 0}}
    \cup
    {<<Sell, p>> : p \in {q \in DOMAIN asks : Occurrences(asks[q], idx) > 0}}

\* C29 (I1): after every top-level operation, every OrderId in the id index
\* maps to a pool slot that is active with qty > 0, and that slot's index
\* occurs exactly once in exactly one level: the level of the slot's own side
\* and price.
C29_IndexedOrdersRest ==
    \A id \in DOMAIN id_to_index :
        LET idx == id_to_index[id]
            o   == orders[idx]
            lv  == IF o.side = Buy THEN bids ELSE asks
        IN /\ o.active
           /\ o.qty > 0
           /\ LevelsHolding(idx) = {<<o.side, o.price>>}
           /\ Occurrences(lv[o.price], idx) = 1

\* every slot index some level of either side refers to
LevelRefs ==
    UNION {SeqRange(bids[p]) : p \in DOMAIN bids}
    \cup UNION {SeqRange(asks[p]) : p \in DOMAIN asks}

\* every slot index the id index refers to
IndexRefs == {id_to_index[id] : id \in DOMAIN id_to_index}

\* C30 (I3): after every top-level operation, every slot index in the free
\* list refers to a slot with active = false, and no free-list slot index is
\* referenced by any level's index list or by the id index.
C30_FreeSlotsUnreferenced ==
    \A k \in DOMAIN free_indices :
        LET idx == free_indices[k]
        IN /\ ~orders[idx].active
           /\ idx \notin LevelRefs
           /\ idx \notin IndexRefs

\* ------------------------------------------------- slot ownership
\* the slots that hold a value pushed and not yet popped: tail_, tail_ + 1,
\* ... up to the slot before head_, around the ring
UnconsumedSlots == {(tail + k) % capacity : k \in 0..(Queued - 1)}

Writing == producer.pc = "push_write"
Reading == consumer.pc = "pop_read"

\* C31: slot exclusion.  While the producer's write of buffer_[head] and the
\* consumer's read of buffer_[tail] are both in progress they are on
\* different slots; the producer writes only a slot whose previous content
\* the consumer has released (it holds no unconsumed value), the consumer
\* reads only a slot the producer has published, which holds the next
\* pushed value, and the value pop hands out is that pushed value, whole.
C31_SlotExclusion ==
    /\ (Writing /\ Reading) => producer.head # consumer.tail
    /\ Writing => producer.head \notin UnconsumedSlots
    /\ Reading => /\ consumer.tail \in UnconsumedSlots
                  /\ buffer[consumer.tail + 1] = pushed[Len(popped) + 1]
    /\ consumer.pc = "pop_store" => consumer.out = pushed[Len(popped) + 1]

\* write and read in progress at once, after the indices have wrapped
C31_Witness ==
    /\ Writing
    /\ Reading
    /\ Len(pushed) >= capacity

\* ------------------------------------------------- producer protocol
\* the positions of pushed that hold an End-typed TimedEvent
EndPositions == {i \in 1..Len(pushed) : pushed[i].ev.type = "End"}

\* the slot that holds the i-th pushed value while it is unconsumed
SlotOf(i) == (tail + (i - Len(popped) - 1)) % capacity

\* C32: the producer numbers the real events 0, 1, 2, ... in generation
\* order, enqueues one End-typed TimedEvent at most, and that only after all
\* num_events real events, and sets producer_done only after End has been
\* pushed: producer_done implies that End is in the ring or has been popped.
C32_ProducerProtocol ==
    /\ \A i \in 1..Len(pushed) :
          pushed[i].ev.type # "End" =>
              /\ pushed[i].id = i - 1
              /\ i <= Len(sent)
              /\ pushed[i].ev = sent[i]
    /\ Cardinality(EndPositions) <= 1
    /\ \A i \in EndPositions :
          /\ i = generator.num_events + 1
          /\ i = Len(pushed)
          /\ \A j \in 1..(i - 1) : pushed[j].ev.type # "End"
    /\ producer_done =>
          /\ EndPositions # {}
          /\ \A i \in EndPositions :
                \/ i <= Len(popped)                       \* already popped
                \/ buffer[SlotOf(i) + 1] = pushed[i]      \* in the ring

\* producer_done is set while the End marker is still in the ring, behind
\* MaxEvents numbered events
C32_Witness ==
    /\ producer_done
    /\ generator.num_events = MaxEvents
    /\ Len(pushed) = MaxEvents + 1
    /\ Len(popped) < Len(pushed)

\* ------------------------------------------------- quantities
\* every call of the matching routine a caller can cause in the current
\* state, whatever quantity it passes
AnyMatchFromHere ==
    {market_match(side, q) : side \in Sides, q \in QtyInputs}
    \cup
    {match_incoming_limit(BookState(q), side, p) :
        side \in Sides, p \in Prices, q \in QtyInputs}

\* C33: quantities never go negative.  In every reachable state every pool
\* slot has qty >= 0 and every order the id index refers to has qty > 0;
\* every fill the matching routine makes from here trades a quantity > 0,
\* no more than the maker had, and the taker residual it returns is >= 0.
C33_QuantitiesNonNegative ==
    /\ \A i \in DOMAIN orders : orders[i].qty >= 0
    /\ \A id \in DOMAIN id_to_index : orders[id_to_index[id]].qty > 0
    /\ \A m \in AnyMatchFromHere :
          /\ m.qty >= 0
          /\ \A k \in DOMAIN m.fills : m.fills[k].qty > 0
          /\ \A i \in DOMAIN m.orders : m.orders[i].qty >= 0

\* a resting order was filled in part: it keeps a positive rest while a
\* further match from here would take all of it
C33_Witness ==
    \E i \in DOMAIN orders :
        /\ orders[i].active
        /\ orders[i].qty = 1
        /\ last.filled = 1
        /\ last.op \in {"execute_market_order", "add_limit_order"}
        /\ \E m \in AnyMatchFromHere : m.fills # <<>> /\ m.orders[i].qty = 0

\* ------------------------------------------------- level/slot consistency
\* every index of the level of bookSide at price p refers to a slot that is
\* inactive or holds an order of that side and price
LevelConsistent(book, bookSide, p) ==
    \A k \in DOMAIN book[p] :
        LET o == orders[book[p][k]]
        IN o.active => (o.side = bookSide /\ o.price = p)

\* C34: in every reachable state every index stored in a bid level at price
\* p refers to a slot that is inactive or holds a Buy order with price p, and
\* every index stored in an ask level at price p to a slot that is inactive
\* or holds a Sell order with price p: no stale index comes to reference a
\* different live order.
C34_LevelSlotConsistency ==
    /\ \A p \in DOMAIN bids : LevelConsistent(bids, Buy, p)
    /\ \A p \in DOMAIN asks : LevelConsistent(asks, Sell, p)

\* ------------------------------------------------- id uniqueness
\* C35: add_limit_order never assigns an id that is present in the id index
\* (the id it would assign next, next_id_, is not in it), so no live order
\* loses its id mapping to another order: every resting order is the one the
\* id index gives for its id, and stays cancellable under it.
C35_IdsUnique ==
    /\ next_id \notin DOMAIN id_to_index
    /\ \A i \in RestingSlots(orders) :
          /\ orders[i].id \in DOMAIN id_to_index
          /\ id_to_index[orders[i].id] = i

\* ==================================================================
\* The list-based OrderBook (src/src/order_book.cpp, lines 347-471): a level
\* is a std::list of orders, index_ maps an id to side, price and the list
\* position.  A list book is a record: bids, asks (price -> sequence of
\* [id, qty]), index (id -> [side, price]) and next_id.
ListInit == [bids |-> EmptyMap, asks |-> EmptyMap, index |-> EmptyMap,
             next_id |-> 1]

ListBookOf(L, bookSide) == IF bookSide = Buy THEN L.bids ELSE L.asks

ListWithBook(L, bookSide, book) ==
    IF bookSide = Buy THEN [L EXCEPT !.bids = book] ELSE [L EXCEPT !.asks = book]

\* bool OrderBook::empty() const
list_empty(L) == DOMAIN L.bids = {} /\ DOMAIN L.asks = {}

\* best_bid: std::prev(bids_.end()), best_ask: asks_.begin(); the level's
\* quantities are summed and the quote is valid whatever the sum
list_best(L, bookSide) ==
    LET book == ListBookOf(L, bookSide)
    IN IF DOMAIN book = {} THEN InvalidInfo
       ELSE LET price == IF bookSide = Buy THEN SetMax(DOMAIN book)
                                           ELSE SetMin(DOMAIN book)
            IN [valid |-> TRUE, price |-> price, qty |-> SumSeq(book[price], "qty")]

\* OrderId OrderBook::add_limit_order(side, price, qty): no matching, no
\* test of qty
list_add_limit_order(L, side, price, qty) ==
    LET id    == L.next_id
        book  == ListBookOf(L, side)
        level == IF price \in DOMAIN book THEN book[price] ELSE <<>>
        book1 == MapPut(book, price, Append(level, [id |-> id, qty |-> qty]))
        L1    == ListWithBook(L, side, book1)
    IN [L |-> [L1 EXCEPT !.next_id = id + 1,
                         !.index = MapPut(@, id, [side |-> side, price |-> price])],
        ret |-> id]

\* level.erase(ref.it): the list without the order the iterator points at
RECURSIVE ListErase(_, _)
ListErase(level, id) ==
    IF level = <<>> THEN <<>>
    ELSE IF level[1].id = id THEN Tail(level)
         ELSE <<level[1]>> \o ListErase(Tail(level), id)

\* bool OrderBook::cancel(OrderId id)
list_cancel(L, id) ==
    IF id \notin DOMAIN L.index THEN [L |-> L, ret |-> FALSE]
    ELSE LET ref  == L.index[id]
             book == ListBookOf(L, ref.side)
         IN IF ref.price \notin DOMAIN book THEN [L |-> L, ret |-> FALSE]
            ELSE LET level == ListErase(book[ref.price], id)
                     book1 == IF level = <<>> THEN MapErase(book, ref.price)
                              ELSE MapPut(book, ref.price, level)
                 IN [L |-> [ListWithBook(L, ref.side, book1)
                               EXCEPT !.index = MapErase(@, id)],
                     ret |-> TRUE]

\* while (qty > 0 && !level.empty()) over level.front(); r is
\* [level, index, qty, filled]
RECURSIVE ListLevelLoop(_)
ListLevelLoop(r) ==
    IF ~(r.qty > 0 /\ r.level # <<>>) THEN r
    ELSE LET ord       == r.level[1]
             trade_qty == Min(r.qty, ord.qty)
             left      == ord.qty - trade_qty
         IN ListLevelLoop(
              [level  |-> IF left = 0 THEN Tail(r.level)
                          ELSE [r.level EXCEPT ![1].qty = left],
               index  |-> IF left = 0 THEN MapErase(r.index, ord.id) ELSE r.index,
               qty    |-> r.qty - trade_qty,
               filled |-> r.filled + trade_qty])

\* while (qty > 0 && !book.empty()); bookSide is the side that is hit
RECURSIVE ListBookLoop(_, _, _, _)
ListBookLoop(L, bookSide, qty, filled) ==
    LET book == ListBookOf(L, bookSide)
    IN IF ~(qty > 0 /\ DOMAIN book # {})
       THEN [L |-> L, filled |-> filled]
       ELSE LET price == IF bookSide = Sell THEN SetMin(DOMAIN book)
                                            ELSE SetMax(DOMAIN book)
                r     == ListLevelLoop([level |-> book[price], index |-> L.index,
                                        qty |-> qty, filled |-> filled])
                book1 == IF r.level = <<>> THEN MapErase(book, price)
                         ELSE MapPut(book, price, r.level)
            IN ListBookLoop([ListWithBook(L, bookSide, book1)
                                EXCEPT !.index = r.index],
                            bookSide, r.qty, r.filled)

\* MatchResult OrderBook::execute_market_order(Side side, Quantity qty)
list_execute_market_order(L, side, qty) ==
    LET bookSide == Opposite(side)
    IN IF DOMAIN ListBookOf(L, bookSide) = {}
       THEN [L |-> L, requested |-> qty, filled |-> 0, remaining |-> qty]
       ELSE LET r == ListBookLoop(L, bookSide, qty, 0)
            IN [L |-> r.L, requested |-> qty, filled |-> r.filled,
                remaining |-> qty - r.filled]

\* ---- the behaviour the two variants have in common
AddPassivePositive ==
    /\ \E side \in Sides, price \in Prices, qty \in PosQtys :
          /\ CrossingSlots(orders, side, price) = {}
          /\ add_limit_order(side, price, qty)
    /\ UNCHANGED <<queueVars, pipeVars>>

ExecuteMarketOrderPositive ==
    /\ \E side \in Sides, qty \in PosQtys : execute_market_order(side, qty)
    /\ UNCHANGED <<queueVars, pipeVars>>

NextCommon ==
    \/ AddPassivePositive
    \/ Cancel
    \/ ExecuteMarketOrderPositive

SpecCommon == Init /\ [][NextCommon]_vars

\* the orders of one level as the list variant keeps them: id and quantity of
\* each live order, in level order
RECURSIVE LiveOrders(_)
LiveOrders(indices) ==
    IF indices = <<>> THEN <<>>
    ELSE LET o == orders[indices[1]]
         IN (IF o.active /\ o.qty > 0 THEN <<[id |-> o.id, qty |-> o.qty]>>
                                      ELSE <<>>)
            \o LiveOrders(Tail(indices))

LiveLevels(book) ==
    LET ps == {p \in DOMAIN book : LiveOrders(book[p]) # <<>>}
    IN [p \in ps |-> LiveOrders(book[p])]

\* the list book that holds what the flat book holds
AsListBook ==
    [bids    |-> LiveLevels(bids),
     asks    |-> LiveLevels(asks),
     index   |-> [id \in DOMAIN id_to_index |->
                    [side  |-> orders[id_to_index[id]].side,
                     price |-> orders[id_to_index[id]].price]],
     next_id |-> next_id]

\* C36: the flat-storage book refines the list-based one on their common
\* behaviour.  Whenever the flat book makes a non-crossing add_limit_order,
\* a cancel or an execute_market_order with qty > 0, the list-based book that
\* holds the same orders returns the same id, the same cancel result, the
\* same {requested, filled, remaining}, and shows the same best_bid(),
\* best_ask() and empty() after the step.
C36_RefinesListBook ==
    [][/\ \A side \in Sides, price \in Prices, qty \in PosQtys :
            (/\ CrossingSlots(orders, side, price) = {}
             /\ add_limit_order(side, price, qty))
            => LET r == list_add_limit_order(AsListBook, side, price, qty)
               IN /\ last'.ret = r.ret
                  /\ best_bid' = list_best(r.L, Buy)
                  /\ best_ask' = list_best(r.L, Sell)
                  /\ empty' = list_empty(r.L)
       /\ \A id \in CancelIds :
            cancel(id)
            => LET r == list_cancel(AsListBook, id)
               IN /\ (last'.ret = 1) = r.ret
                  /\ best_bid' = list_best(r.L, Buy)
                  /\ best_ask' = list_best(r.L, Sell)
                  /\ empty' = list_empty(r.L)
       /\ \A side \in Sides, qty \in PosQtys :
            execute_market_order(side, qty)
            => LET r == list_execute_market_order(AsListBook, side, qty)
               IN /\ last'.requested = r.requested
                  /\ last'.filled = r.filled
                  /\ last'.remaining = r.remaining
                  /\ best_bid' = list_best(r.L, Buy)
                  /\ best_ask' = list_best(r.L, Sell)
                  /\ empty' = list_empty(r.L)]_vars

\* ==================================================================
\* The live-feed pipeline of src/app/live_feed_main.cpp: the main thread
\* reads event lines from std::cin and pushes them, the engine thread pops
\* them and applies them to the book.  In this pipeline the variable
\* generator is std::cin ([lines, read]: lines it holds, lines read so far),
\* producer_done is the flag done, consumed_count the counter processed,
\* and sent lists the events pushed or about to be.
MaxLines == 2       \* std::cin holds 0..MaxLines lines

done      == producer_done
processed == consumed_count

\* the events parse_event_line can produce (ev.id = 0); price and quantity
\* of a line are kept small, and lines that differ only in fields the engine
\* never reads are one line
LiveEvents ==
    {[type |-> "Add", side |-> side, price |-> price, qty |-> qty, id |-> 0] :
        side \in Sides, price \in Prices, qty \in PosQtys}
    \cup
    {[type |-> "Market", side |-> side, price |-> 1, qty |-> qty, id |-> 0] :
        side \in Sides, qty \in PosQtys}
    \cup
    {[type |-> "Cancel", side |-> Buy, price |-> 1, qty |-> 1, id |-> 0]}

\* main: queue(QUEUE_CAPACITY), done{false}, processed{0}, book, the engine
\* thread started, read_count = 0; max_events = 0 means no limit
LiveInit ==
    /\ BookInit
    /\ capacity \in 2..MaxCapacity
    /\ buffer = [i \in 1..capacity |-> DefaultEvent]
    /\ head = 0
    /\ tail = 0
    /\ \E max_events \in 0..1 :
          producer = [pc |-> "read", head |-> 0, next |-> 0,
                      value |-> DefaultEvent, read_count |-> 0,
                      max_events |-> max_events]
    /\ consumer = [pc |-> "loop", tail |-> 0, out |-> DefaultEvent]
    /\ generator \in {[lines |-> n, read |-> 0] : n \in 0..MaxLines}
    /\ producer_done = FALSE
    /\ consumed_count = 0
    /\ pushed = <<>>
    /\ popped = <<>>
    /\ sent = <<>>

\* ---- the producer loop of main
\* std::getline fails: the loop ends
LiveEndOfInput ==
    /\ producer.pc = "read"
    /\ generator.read = generator.lines
    /\ producer' = [producer EXCEPT !.pc = "set_done"]
    /\ UNCHANGED <<capacity, buffer, head, tail, consumer, pushed, popped,
                   bookVars, pipeVars>>

\* a line that is empty or that parse_event_line rejects: continue
LiveSkipLine ==
    /\ producer.pc = "read"
    /\ generator.read < generator.lines
    /\ generator' = [generator EXCEPT !.read = @ + 1]
    /\ UNCHANGED <<capacity, buffer, head, tail, producer, consumer, pushed,
                   popped, bookVars, producer_done, consumed_count, sent>>

\* a non-empty line with max_events > 0 && read_count >= max_events: break
LiveLimitReached ==
    /\ producer.pc = "read"
    /\ generator.read < generator.lines
    /\ producer.max_events > 0
    /\ producer.read_count >= producer.max_events
    /\ generator' = [generator EXCEPT !.read = @ + 1]
    /\ producer' = [producer EXCEPT !.pc = "set_done"]
    /\ UNCHANGED <<capacity, buffer, head, tail, consumer, pushed, popped,
                   bookVars, producer_done, consumed_count, sent>>

\* a line that parses: ++read_count, then push it
LiveReadEvent ==
    /\ producer.pc = "read"
    /\ generator.read < generator.lines
    /\ ~(producer.max_events > 0 /\ producer.read_count >= producer.max_events)
    /\ \E ev \in LiveEvents :
          /\ producer' = [producer EXCEPT !.pc = "push", !.value = ev,
                                          !.read_count = @ + 1]
          /\ sent' = Append(sent, ev)
    /\ generator' = [generator EXCEPT !.read = @ + 1]
    /\ UNCHANGED <<capacity, buffer, head, tail, consumer, pushed, popped,
                   bookVars, producer_done, consumed_count>>

\* while (!queue.push(ev)) yield();
LivePushed ==
    /\ producer.pc = "push_true"
    /\ producer' = [producer EXCEPT !.pc = "read"]
    /\ UNCHANGED <<capacity, buffer, head, tail, consumer, pushed, popped,
                   bookVars, pipeVars>>

LivePushRetry ==
    /\ producer.pc = "push_false"
    /\ producer' = [producer EXCEPT !.pc = "push"]
    /\ UNCHANGED <<capacity, buffer, head, tail, consumer, pushed, popped,
                   bookVars, pipeVars>>

\* done.store(true, release); then engine_thread.join()
LiveSetDone ==
    /\ producer.pc = "set_done"
    /\ producer_done' = TRUE
    /\ producer' = [producer EXCEPT !.pc = "join"]
    /\ UNCHANGED <<capacity, buffer, head, tail, consumer, pushed, popped,
                   bookVars, generator, consumed_count, sent>>

\* engine_thread.join() returns once the engine thread has ended
LiveJoin ==
    /\ producer.pc = "join"
    /\ consumer.pc = "done"
    /\ producer' = [producer EXCEPT !.pc = "done"]
    /\ UNCHANGED <<capacity, buffer, head, tail, consumer, pushed, popped,
                   bookVars, pipeVars>>

\* ---- engine_thread
\* while (!done.load(acquire) || ...): the load of done
EngineLoadDone ==
    /\ consumer.pc = "loop"
    /\ consumer' = [consumer EXCEPT !.pc = IF done THEN "loop_empty" ELSE "pop"]
    /\ UNCHANGED <<capacity, buffer, head, tail, producer, pushed, popped,
                   bookVars, pipeVars>>

\* an engine that leaves as soon as it has seen done
EngineCheckEmptySkipped ==
    /\ consumer.pc = "loop_empty"
    /\ consumer' = [consumer EXCEPT !.pc = "done"]
    /\ UNCHANGED <<capacity, buffer, head, tail, producer, pushed, popped,
                   bookVars, pipeVars>>

\* ... || !queue.empty()): done was true; leave the loop if the ring is empty
EngineCheckEmpty ==
    /\ consumer.pc = "loop_empty"
    /\ consumer' = [consumer EXCEPT !.pc = IF queue_empty THEN "done" ELSE "pop"]
    /\ UNCHANGED <<capacity, buffer, head, tail, producer, pushed, popped,
                   bookVars, pipeVars>>

\* pop returned true: the switch over ev.type, then processed.fetch_add(1)
EngineDispatch ==
    /\ consumer.pc = "pop_true"
    /\ LET ev == consumer.out
       IN CASE ev.type = "Add" -> add_limit_order(ev.side, ev.price, ev.qty)
            [] ev.type = "Market" -> execute_market_order(ev.side, ev.qty)
            [] OTHER -> UNCHANGED bookVars
    /\ consumed_count' = consumed_count + 1
    /\ consumer' = [consumer EXCEPT !.pc = "loop"]
    /\ UNCHANGED <<capacity, buffer, head, tail, producer, pushed, popped,
                   generator, producer_done, sent>>

\* pop returned false: yield, back to the loop test
EngineYield ==
    /\ consumer.pc = "pop_false"
    /\ consumer' = [consumer EXCEPT !.pc = "loop"]
    /\ UNCHANGED <<capacity, buffer, head, tail, producer, pushed, popped,
                   bookVars, pipeVars>>

LiveProducerStep ==
    \/ LiveEndOfInput
    \/ LiveSkipLine
    \/ LiveLimitReached
    \/ LiveReadEvent
    \/ PushLoadHead
    \/ PushCheck
    \/ PushWrite
    \/ PushStore
    \/ LivePushed
    \/ LivePushRetry
    \/ LiveSetDone
    \/ LiveJoin

EngineStep ==
    \/ EngineLoadDone
    \/ EngineCheckEmpty
    \/ PopLoadTail
    \/ PopCheck
    \/ PopRead
    \/ PopStore
    \/ EngineDispatch
    \/ EngineYield

LiveNext == LiveProducerStep \/ EngineStep

SpecLive == LiveInit /\ [][LiveNext]_vars

\* both threads are scheduled again and again
SpecLiveFair == SpecLive /\ WF_vars(LiveProducerStep) /\ WF_vars(EngineStep)

\* the single-threaded application of events as the engine's switch applies
\* them: Add through add_limit_order, Market through execute_market_order,
\* Cancel and End ignored
LiveApplyEvent(b, ev) ==
    CASE ev.type = "Add" ->
           LET r == add_limit_order_on([b.st EXCEPT !.qty = ev.qty], b.next_id,
                                       ev.side, ev.price, b.clock + 1)
           IN [st      |-> [r.st EXCEPT !.qty = 0],
               clock   |-> IF r.rested THEN b.clock + 1 ELSE b.clock,
               next_id |-> IF r.rested THEN PostIncrement(b.next_id)
                                       ELSE b.next_id]
      [] ev.type = "Market" ->
           IF ev.qty <= 0 THEN b
           ELSE [b EXCEPT !.st = match_on_book([b.st EXCEPT !.qty = ev.qty],
                                               Opposite(ev.side), AlwaysCross)]
      [] OTHER -> b

RECURSIVE LiveApplyAll(_, _)
LiveApplyAll(b, evs) ==
    IF evs = <<>> THEN b
    ELSE LiveApplyAll(LiveApplyEvent(b, Head(evs)), Tail(evs))

LiveSingleThreaded(evs) ==
    LiveApplyAll([st |-> EmptyBook, clock |-> 0, next_id |-> 1], evs).st

EngineLeft == consumer.pc = "done"

\* C37: the live-feed pipeline drains before exit.  Once the engine thread
\* has left its loop, every event the producer pushed has been popped, in
\* push order, and applied: processed equals read_count, the number of
\* events pushed, and the book is the single-threaded application of them;
\* and under fair scheduling, once done is set the engine thread ends.
C37_LiveFeedDrains ==
    /\ [](EngineLeft =>
            /\ done
            /\ producer.pc \in {"join", "done"}
            /\ pushed = sent
            /\ popped = pushed
            /\ processed = producer.read_count
            /\ processed = Len(pushed)
            /\ BookFields(Here) = BookFields(LiveSingleThreaded(pushed)))
    /\ (done ~> EngineLeft)

\* the engine thread has left after MaxLines events went through the
\* smallest ring, the last of them resting in the book
C37_Witness ==
    /\ EngineLeft
    /\ capacity = 2
    /\ processed = MaxLines
    /\ RestingIds(Here) # {}

\* ------------------------------------------------- no spurious failures
\* the queue on its own with both threads scheduled again and again
QueueProducerStep ==
    ProducerCall \/ PushLoadHead \/ PushCheck \/ PushWrite \/ PushStore
    \/ ProducerReturn

QueueConsumerStep ==
    ConsumerCall \/ PopLoadTail \/ PopCheck \/ PopRead \/ PopStore
    \/ ConsumerReturn

SpecQueueFair ==
    SpecQueue /\ WF_vars(QueueProducerStep) /\ WF_vars(QueueConsumerStep)

\* C38: no spurious failures.  pop returns false only if the ring holds no
\* unconsumed value at the instant pop reads head_, push returns false only
\* if it holds capacity - 1 unconsumed values at the instant push reads
\* tail_; so, with a ring that can hold a value (capacity >= 2), a producer
\* that offers each value until push takes it and a consumer that keeps
\* calling pop get every one of the MaxPush values through.
C38_NoSpuriousFailures ==
    /\ [][/\ (consumer.pc = "pop_check" /\ consumer'.pc = "pop_false")
                => Queued = 0
          /\ (producer.pc = "push_check" /\ producer'.pc = "push_false")
                => Queued = capacity - 1]_vars
    /\ (capacity >= 2 => <>(Len(popped) = MaxPush))

\* push has just failed on a full ring and pop on an empty one, in one run
C38_Witness ==
    /\ producer.pc = "push_false"
    /\ consumer.pc = "pop_false"
    /\ capacity >= 2
    /\ Len(popped) >= 1

\* ------------------------------------------------- id index and slot pool
\* C39: in every reachable state every entry id -> slot of id_to_index_
\* refers to a slot with active = true, qty > 0 and that id, so cancel of an
\* indexed id never takes the branch that erases the id and returns false.
C39_IndexMapsToLiveSlots ==
    \A id \in DOMAIN id_to_index :
        LET o == orders[id_to_index[id]]
        IN /\ o.active
           /\ o.qty > 0
           /\ o.id = id
           /\ cancel_on(Here, id).ret

\* an indexed order has been cancelled and another is still indexed
C39_Witness ==
    /\ last.op = "cancel"
    /\ last.ret = 1
    /\ free_indices # <<>>
    /\ DOMAIN id_to_index # {}

\* the state in which add_limit_order / add_limit_order_with_id calls
\* allocate_slot, when it gets that far
AtAllocate(id, withId, side, p, q) ==
    LET m == match_incoming_limit(BookState(q), side, p)
    IN IF withId THEN Supersede(m, id) ELSE m

\* C40: in every reachable state the free list holds no slot index twice and
\* no index of an active slot, and allocate_slot, in whatever add it is
\* called, returns no slot that holds a live order at that moment.
C40_SlotPoolIntegrity ==
    /\ \A j, k \in DOMAIN free_indices :
          free_indices[j] = free_indices[k] => j = k
    /\ \A k \in DOMAIN free_indices : ~orders[free_indices[k]].active
    /\ \A id \in CancelIds, withId \in BOOLEAN, side \in Sides,
          p \in Prices, q \in PosQtys :
          LET st == AtAllocate(id, withId, side, p, q)
          IN st.qty > 0 =>
                allocate_slot(st.orders, st.free).idx
                    \notin RestingSlots(st.orders)

\* a slot has gone through the free list and holds a live order again, with
\* another slot waiting in the free list
C40_Witness ==
    /\ free_indices # <<>>
    /\ \E i \in RestingSlots(orders) : orders[i].ts > i

====
